---------------------------- MODULE Spec2Model ----------------------------
(***************************************************************************)
(* A model of cardboardlint: the file filter (utils.py), the Report and    *)
(* Message model (report.py), the unified-diff parser and line selector    *)
(* (diff.py), linter selection (cli.py filter_configs) and the driver      *)
(* (cli.py main with linter.py Linter.__call__).                           *)
(*                                                                         *)
(* Python strings are modelled as tuples of one-character strings, so that *)
(* prefix tests, strip() and fnmatch() are computed and not assumed.       *)
(* A call that can raise returns a record [exc, val]: exc is "none" or the *)
(* name of the exception class, val is the returned value.                 *)
(***************************************************************************)
EXTENDS Integers, Sequences, FiniteSets, TLC

VARIABLES
    \* ---- utils.matches_filefilter, called on its own (SpecFilter)
    ff_pc,          \* "idle" | "ready" | "done"
    ff_filename,    \* argument filename
    ff_rules,       \* argument rules
    ff_accepted,    \* the outcome of the call, [exc, val]
    \* ---- report.Report, one object (SpecReport)
    rp_pc,          \* "idle" | "open" | "raised"
    rp_files_lines, \* Report.files_lines: filename -> [all, lines]
    rp_messages,    \* Report.messages
    rp_started,     \* Report._start_time is not None
    rp_printed,     \* the message lines show_messages printed, in order
    rp_op,          \* the last method called on the Report
    rp_args,        \* its arguments
    rp_ret,         \* its outcome, [exc, val]
    \* ---- diff.parse_unified_diff and extract_files_lines (SpecDiff)
    df_pc,          \* "idle" | "main" | "hunks" | "parsed" | "extracted" | "raised"
    df_lines,       \* lines: the lines of diff_output read so far
    df_eof,         \* len(lines) is Len(df_lines): no line follows
    df_iline,       \* iline (zero-based)
    df_source_filename, \* parse_unified_diff: source_filename
    df_target_filename, \* parse_unified_diff: target_filename
    df_start,       \* parse_unified_diff: start
    df_hunks,       \* parse_unified_diff: hunks is not None
    df_result,      \* parse_unified_diff: result, the Patch
    df_h,           \* _parse_hunks: its locals start, source_start, del_lines, add_lines
    df_exc,         \* the exception that ended the parse, or "none"
    df_files_lines, \* what extract_files_lines returned
    \* ---- PatchedFile.target_starts, extract_files_lines on a Patch (SpecPatch)
    ps_pc,          \* "idle" | "patch" | "starts" | "extracted"
    ps_patch,       \* patch: a list of PatchedFile
    ps_target_starts, \* target_starts of each PatchedFile of the patch
    ps_files_lines, \* what extract_files_lines returned
    \* ---- cli.filter_configs, called on its own (SpecSelect)
    fc_pc,          \* "idle" | "ready" | "done"
    fc_configs,     \* argument configs: a list of (linter, linter_config)
    fc_selection,   \* argument selection
    fc_boolexpr,    \* argument boolexpr
    fc_part,        \* argument part
    fc_ret,         \* the outcome of the call, [exc, val]
    \* ---- cli.main (Spec)
    mn_pc,          \* "idle" | "start" | "loaded" | "prefiltered" | "loop" |
                    \* "call" | "show" | "exit" | "raised"
    mn_raw_config,  \* the content of .cardboardlint.yml
    mn_args,        \* args
    mn_diff,        \* what run_diff(args.refspec) returns
    mn_prefilter,   \* prefilter
    mn_configs,     \* configs
    mn_files_lines, \* files_lines
    mn_i,           \* position of the for loop in configs, from 1
    mn_report,      \* report
    mn_returncode,  \* returncode
    mn_exc,         \* the exception that ended main, [exc, at]
    mn_ran,         \* names of the linters whose lint function was called
    mn_retained,    \* len(report.messages) at each show_messages, in order
    \* ---- one call of a function on drawn arguments (SpecOrder, SpecShard,
    \* ---- SpecDefaults)
    fn_pc,          \* "idle" | "ready" | "done"
    fn_args,        \* the arguments of the call
    fn_ret          \* its outcome

filterVars == <<ff_pc, ff_filename, ff_rules, ff_accepted>>

reportVars ==
    <<rp_pc, rp_files_lines, rp_messages, rp_started, rp_printed, rp_op,
      rp_args, rp_ret>>

patchVars == <<ps_pc, ps_patch, ps_target_starts, ps_files_lines>>

callVars == <<fn_pc, fn_args, fn_ret>>

selectVars == <<fc_pc, fc_configs, fc_selection, fc_boolexpr, fc_part, fc_ret>>

mainVars ==
    <<mn_pc, mn_raw_config, mn_args, mn_diff, mn_prefilter, mn_configs,
      mn_files_lines, mn_i, mn_report, mn_returncode, mn_exc, mn_ran,
      mn_retained>>

diffVars ==
    <<df_pc, df_lines, df_eof, df_iline, df_source_filename,
      df_target_filename, df_start, df_hunks, df_result, df_h, df_exc,
      df_files_lines>>

----------------------------------------------------------------------------
(* Bounds of the model. *)

\* Longest rule list handed to matches_filefilter.
MaxRules == 2

\* Most messages one Report is given before it is rendered.
MaxMessages == 2

\* Most lines of diff text handed to parse_unified_diff.
MaxLines == 6

\* Most hunks of a PatchedFile, largest source_start of a hunk, and most
\* PatchedFiles of a Patch, for the patches drawn in SpecPatch.
MaxHunks == 2

MaxStart == 2

MaxFiles == 2

\* Most configs handed to filter_configs on its own.
MaxConfigs == 6

\* Most items of the linters section of the configuration file of main.
MaxLinters == 2

\* Longest suffix string handed to get_offset_step on its own.
MaxPartLen == 4

\* Largest value of a key of the dicts handed to apply_config_defaults on
\* its own.
MaxValue == 1

\* Most proposals made to the Report whose rendering is looked at on its own.
MaxRendered == 3

\* The largest number of shards M of a part N/M that a claim enumerates
MaxShards == 3

\* The longest config list of which all shards are taken
MaxPartConfigs == 5

----------------------------------------------------------------------------
(* Python values. *)

None == "None"

\* An optional integer (lineno, charno): <<>> is None, <<n>> is the int n.
NoInt == <<>>

Int1(n) == <<n>>

\* The filename None, which is no string.
NoName == <<"None">>

Ok(v) == [exc |-> "none", val |-> v]

Raise(e) == [exc |-> e, val |-> None]

----------------------------------------------------------------------------
(* utils.py: the file filter. *)

\* str.strip() on a tuple of characters: leading and trailing blanks removed.
RECURSIVE LStrip(_)
LStrip(s) == IF s # <<>> /\ Head(s) = " " THEN LStrip(Tail(s)) ELSE s

RECURSIVE RStrip(_)
RStrip(s) ==
    IF s # <<>> /\ s[Len(s)] = " " THEN RStrip(SubSeq(s, 1, Len(s) - 1)) ELSE s

Strip(s) == RStrip(LStrip(s))

\* fnmatch.fnmatch(name, pat) on POSIX for patterns of literal characters,
\* '*' and '?': the pattern is anchored at both ends, and '*' and '?' match
\* any character, the directory separator included.
RECURSIVE Fnmatch(_, _)
Fnmatch(name, pat) ==
    IF pat = <<>> THEN name = <<>>
    ELSE IF Head(pat) = "*"
         THEN Fnmatch(name, Tail(pat)) \/ (name # <<>> /\ Fnmatch(Tail(name), pat))
    ELSE IF Head(pat) = "?"
         THEN name # <<>> /\ Fnmatch(Tail(name), Tail(pat))
    ELSE name # <<>> /\ Head(name) = Head(pat) /\ Fnmatch(Tail(name), Tail(pat))

\* rule[1:].strip()
RulePattern(rule) == Strip(Tail(rule))

\* The second loop of matches_filefilter: the first rule whose pattern
\* matches decides; False when the loop runs out.
RECURSIVE MatchLoopReturnsDefaultTrue(_, _)
MatchLoopReturnsDefaultTrue(filename, rules) ==
    IF rules = <<>> THEN TRUE
    ELSE IF Fnmatch(filename, RulePattern(Head(rules)))
         THEN Head(rules)[1] = "+"
    ELSE MatchLoopReturnsDefaultTrue(filename, Tail(rules))

RECURSIVE MatchLoop(_, _)
MatchLoop(filename, rules) ==
    IF rules = <<>> THEN FALSE
    ELSE IF Fnmatch(filename, RulePattern(Head(rules)))
         THEN Head(rules)[1] = "+"
    ELSE MatchLoop(filename, Tail(rules))

\* The first loop of matches_filefilter: some rule has a first character
\* other than '+' and '-'.
BadRule(rules) == \E i \in 1..Len(rules) : rules[i][1] \notin {"+", "-"}

\* A variant that checks each rule's format only when the loop reaches it.
RECURSIVE MatchesFilefilterLazyCheck(_, _)
MatchesFilefilterLazyCheck(filename, rules) ==
    IF rules = <<>> THEN Ok(FALSE)
    ELSE IF Head(rules)[1] \notin {"+", "-"} THEN Raise("ValueError")
    ELSE IF Fnmatch(filename, RulePattern(Head(rules)))
         THEN Ok(Head(rules)[1] = "+")
    ELSE MatchesFilefilterLazyCheck(filename, Tail(rules))

MatchesFilefilter(filename, rules) ==
    IF BadRule(rules) THEN Raise("ValueError")
    ELSE Ok(MatchLoop(filename, rules))

----------------------------------------------------------------------------
(* report.py: Message. *)

\* Message.__init__: the checks of lineno, charno and nline, then the fields.
MessageAcceptsAnyPosition(filename, lineno, charno, text, nline) ==
    Ok([filename |-> filename, lineno |-> lineno, charno |-> charno,
        text |-> text, nline |-> nline])

Message(filename, lineno, charno, text, nline) ==
    IF ~(lineno = NoInt \/ lineno[1] > 0) THEN Raise("TypeError")
    ELSE IF ~(charno = NoInt \/ charno[1] > 0) THEN Raise("TypeError")
    ELSE IF ~(nline > 0) THEN Raise("TypeError")
    ELSE Ok([filename |-> filename, lineno |-> lineno, charno |-> charno,
             text |-> text, nline |-> nline])

\* ord() of the characters that occur in the model's strings.
Ord(c) ==
    CASE c = " " -> 32 [] c = "*" -> 42 [] c = "+" -> 43 [] c = "-" -> 45
      [] c = "." -> 46 [] c = "/" -> 47 [] c = "?" -> 63 [] c = "a" -> 97
      [] c = "b" -> 98 [] c = "e" -> 101 [] c = "f" -> 102 [] c = "t" -> 116
      [] c = "w" -> 119 [] c = "x" -> 120 [] c = "y" -> 121

\* Python's < on two strings.
RECURSIVE StrLt(_, _)
StrLt(s, t) ==
    IF t = <<>> THEN FALSE
    ELSE IF s = <<>> THEN TRUE
    ELSE IF Head(s) = Head(t) THEN StrLt(Tail(s), Tail(t))
    ELSE Ord(Head(s)) < Ord(Head(t))

\* `self.filename or ''`, `self.lineno or 0`, `self.charno or 0`
NameOrEmpty(filename) == IF filename = NoName THEN <<>> ELSE filename

IntOrZero(n) == IF n = NoInt THEN 0 ELSE n[1]

\* A comparison of the two tuples with <= in the place of <.
MessageLtOrEqual(self, other) ==
    LET f1 == NameOrEmpty(self.filename)
        f2 == NameOrEmpty(other.filename)
        l1 == IntOrZero(self.lineno)
        l2 == IntOrZero(other.lineno)
        c1 == IntOrZero(self.charno)
        c2 == IntOrZero(other.charno)
    IN  IF f1 # f2 THEN StrLt(f1, f2)
        ELSE IF l1 # l2 THEN l1 < l2
        ELSE IF c1 # c2 THEN c1 < c2
        ELSE self.text = other.text \/ StrLt(self.text, other.text)

\* Message.__lt__ between two Messages: Python's < on the two tuples.
MessageLt(self, other) ==
    LET f1 == NameOrEmpty(self.filename)
        f2 == NameOrEmpty(other.filename)
        l1 == IntOrZero(self.lineno)
        l2 == IntOrZero(other.lineno)
        c1 == IntOrZero(self.charno)
        c2 == IntOrZero(other.charno)
    IN  IF f1 # f2 THEN StrLt(f1, f2)
        ELSE IF l1 # l2 THEN l1 < l2
        ELSE IF c1 # c2 THEN c1 < c2
        ELSE StrLt(self.text, other.text)

\* An operand of <: an object of a class. The value of a Message is the
\* record of its attributes; an object of another class carries a record
\* of the same shape.
Operand(class, value) == [class |-> class, value |-> value]

\* self < other as Python evaluates it when self is a Message:
\* Message.__lt__(self, other) with its test of the classes (report.py 156).
\* With another self, Python finds no __lt__ that takes a Message and no
\* reflected __gt__ on Message, and raises TypeError itself.
Less(self, other) ==
    IF self.class # "Message" THEN Raise("TypeError")
    ELSE IF self.class # other.class THEN Raise("TypeError")
    ELSE Ok(MessageLt(self.value, other.value))

\* Message.format(): the printed line, kept as its parts. `last` is the end
\* of the line range, written only when nline > 1; computing it adds nline
\* to lineno, which raises TypeError when lineno is None.
MessageFormat(m) ==
    IF m.filename = NoName
    THEN Ok([nofile |-> TRUE, filename |-> NoName, lineno |-> NoInt,
             last |-> NoInt, charno |-> NoInt, text |-> m.text])
    ELSE IF m.nline > 1 /\ m.lineno = NoInt THEN Raise("TypeError")
    ELSE Ok([nofile |-> FALSE, filename |-> m.filename, lineno |-> m.lineno,
             last |-> IF m.nline > 1 THEN Int1(m.lineno[1] + m.nline - 1)
                      ELSE NoInt,
             charno |-> m.charno, text |-> m.text])

----------------------------------------------------------------------------
(* report.py: Report. *)

\* A value of the files_lines dict: None (all lines) or a set of numbers.
AllLines == [all |-> TRUE, lines |-> {}]

Lines(S) == [all |-> FALSE, lines |-> S]

\* Report.__call__: [exc, val, messages].
ReportCallIgnoresLines(files_lines, messages, filename, lineno, charno, text, nline) ==
    IF filename \in DOMAIN files_lines
    THEN LET made == Message(filename, lineno, charno, text, nline)
         IN  IF made.exc # "none"
             THEN [exc |-> made.exc, val |-> None, messages |-> messages]
             ELSE [exc |-> "none", val |-> TRUE,
                   messages |-> Append(messages, made.val)]
    ELSE [exc |-> "none", val |-> FALSE, messages |-> messages]

\* A variant that tests lineno alone, whatever nline is.
ReportCallFirstLineOnly(files_lines, messages, filename, lineno, charno, text, nline) ==
    IF /\ filename \in DOMAIN files_lines
       /\ \/ files_lines[filename].all
          \/ lineno = NoInt
          \/ lineno[1] \in files_lines[filename].lines
    THEN LET made == Message(filename, lineno, charno, text, nline)
         IN  IF made.exc # "none"
             THEN [exc |-> made.exc, val |-> None, messages |-> messages]
             ELSE [exc |-> "none", val |-> TRUE,
                   messages |-> Append(messages, made.val)]
    ELSE [exc |-> "none", val |-> FALSE, messages |-> messages]

ReportCall(files_lines, messages, filename, lineno, charno, text, nline) ==
    IF /\ filename \in DOMAIN files_lines
       /\ \/ files_lines[filename].all
          \/ lineno = NoInt
          \/ \E iline \in lineno[1]..(lineno[1] + nline - 1) :
                iline \in files_lines[filename].lines
    THEN LET made == Message(filename, lineno, charno, text, nline)
         IN  IF made.exc # "none"
             THEN [exc |-> made.exc, val |-> None, messages |-> messages]
             ELSE [exc |-> "none", val |-> TRUE,
                   messages |-> Append(messages, made.val)]
    ELSE [exc |-> "none", val |-> FALSE, messages |-> messages]

\* The items of files_lines whose filename matches the filefilter.
MatchingItems(files_lines, filefilter) ==
    [f \in { g \in DOMAIN files_lines :
               MatchesFilefilter(g, filefilter).val } |-> files_lines[f]]

\* A variant that removes the other items from the dict the Report holds
\* instead of building a new dict.
ReportFilterFilesInPlace(files_lines, filefilter) ==
    IF \E f \in DOMAIN files_lines : MatchesFilefilter(f, filefilter).exc # "none"
    THEN [exc |-> "ValueError", files_lines |-> files_lines,
          shared |-> files_lines]
    ELSE [exc |-> "none",
          files_lines |-> MatchingItems(files_lines, filefilter),
          shared |-> MatchingItems(files_lines, filefilter)]

\* Report.filter_files: [exc, files_lines, shared]. matches_filefilter is
\* called once per key, so a malformed rule raises only when there is a
\* key. self.files_lines is bound to a new dict; shared is the dict it was
\* bound to before, which the caller of Report.__init__ also holds.
ReportFilterFiles(files_lines, filefilter) ==
    IF \E f \in DOMAIN files_lines : MatchesFilefilter(f, filefilter).exc # "none"
    THEN [exc |-> "ValueError", files_lines |-> files_lines,
          shared |-> files_lines]
    ELSE [exc |-> "none",
          files_lines |-> MatchingItems(files_lines, filefilter),
          shared |-> files_lines]

\* list.sort() with Message.__lt__: a stable insertion of each element
\* before the first element it is less than.
RECURSIVE InsertSorted(_, _)
InsertSorted(sorted, m) ==
    IF sorted = <<>> THEN <<m>>
    ELSE IF MessageLt(m, Head(sorted)) THEN <<m>> \o sorted
    ELSE <<Head(sorted)>> \o InsertSorted(Tail(sorted), m)

\* A variant that leaves the list in the order of acceptance.
SortMessagesKeepsOrder(messages) == messages

RECURSIVE SortMessages(_)
SortMessages(messages) ==
    IF messages = <<>> THEN <<>>
    ELSE InsertSorted(SortMessages(SubSeq(messages, 1, Len(messages) - 1)),
                      messages[Len(messages)])

\* The loop of show_messages over the sorted messages from position i on:
\* [exc, printed]. `last` is <<>> for None, else <<line>>.
RECURSIVE PrintLoop(_, _, _, _)
PrintLoop(sorted, i, last, printed) ==
    IF i > Len(sorted) THEN [exc |-> "none", printed |-> printed]
    ELSE LET current == MessageFormat(sorted[i])
         IN  IF current.exc # "none"
             THEN [exc |-> current.exc, printed |-> printed]
             ELSE PrintLoop(sorted, i + 1, <<current.val>>,
                            IF <<current.val>> # last
                            THEN Append(printed, current.val) ELSE printed)

\* Report.show_messages: [exc, val, messages, printed, started]. The wall
\* time line subtracts _start_time, which raises TypeError when show_header
\* has not set it.
ShowMessages(messages, started) ==
    LET sorted == SortMessages(messages)
        loop == PrintLoop(sorted, 1, <<>>, <<>>)
    IN  IF loop.exc # "none"
        THEN [exc |-> loop.exc, val |-> None, messages |-> sorted,
              printed |-> loop.printed, started |-> started]
        ELSE IF ~started
        THEN [exc |-> "TypeError", val |-> None, messages |-> sorted,
              printed |-> loop.printed, started |-> started]
        ELSE [exc |-> "none", val |-> Len(messages) > 0, messages |-> sorted,
              printed |-> loop.printed, started |-> FALSE]

----------------------------------------------------------------------------
(* diff.py: Hunk, PatchedFile. *)

Hunk(source_start, del_lines, add_lines) ==
    [source_start |-> source_start, del_lines |-> del_lines,
     add_lines |-> add_lines]

PatchedFile(source_filename, target_filename, hunks) ==
    [source_filename |-> source_filename, target_filename |-> target_filename,
     hunks |-> hunks]

\* Hunk.source_length, Hunk.target_length
SourceLength(hunk) == Len(hunk.del_lines)

TargetLength(hunk) == Len(hunk.add_lines)

\* PatchedFile.source_starts, PatchedFile.target_lengths
SourceStarts(pf) == [k \in 1..Len(pf.hunks) |-> pf.hunks[k].source_start]

TargetLengths(pf) == [k \in 1..Len(pf.hunks) |-> TargetLength(pf.hunks[k])]

\* PatchedFile.target_starts: the loop, from hunk k on with the offset so far.
RECURSIVE TargetStartsLoopNoOffset(_, _, _)
TargetStartsLoopNoOffset(hunks, k, offset) ==
    IF k > Len(hunks) THEN <<>>
    ELSE <<hunks[k].source_start>> \o TargetStartsLoopNoOffset(hunks, k + 1, 0)

RECURSIVE TargetStartsLoop(_, _, _)
TargetStartsLoop(hunks, k, offset) ==
    IF k > Len(hunks) THEN <<>>
    ELSE <<hunks[k].source_start + offset>>
         \o TargetStartsLoop(hunks, k + 1,
               offset + TargetLength(hunks[k]) - SourceLength(hunks[k]))

TargetStarts(pf) == TargetStartsLoop(pf.hunks, 1, 0)

\* A variant that takes the ranges from the source_start of each hunk.
FileLinesFromSourceStarts(pf) ==
    UNION { SourceStarts(pf)[k]..(SourceStarts(pf)[k] + TargetLengths(pf)[k] - 1) :
            k \in 1..Len(pf.hunks) }

\* The inner loop of extract_files_lines: the union of the ranges
\* range(target_start, target_start + target_length).
FileLines(pf) ==
    UNION { TargetStarts(pf)[k]..(TargetStarts(pf)[k] + TargetLengths(pf)[k] - 1) :
            k \in 1..Len(pf.hunks) }

\* extract_files_lines: the outer loop from file i on; a later file with the
\* same target name replaces the entry of an earlier one.
RECURSIVE ExtractLoopKeepsDeleted(_, _, _)
ExtractLoopKeepsDeleted(patch, i, result) ==
    IF i > Len(patch) THEN result
    ELSE ExtractLoopKeepsDeleted(patch, i + 1,
            (patch[i].target_filename :> Lines(FileLines(patch[i]))) @@ result)

RECURSIVE ExtractLoop(_, _, _)
ExtractLoop(patch, i, result) ==
    IF i > Len(patch) THEN result
    ELSE ExtractLoop(patch, i + 1,
            IF patch[i].target_filename # NoName
            THEN (patch[i].target_filename :> Lines(FileLines(patch[i]))) @@ result
            ELSE result)

ExtractFilesLines(patch) == ExtractLoop(patch, 1, <<>>)

----------------------------------------------------------------------------
(* diff.py: the parser. *)

\* A line of diff text, by the test that dispatches it:
\*   "src"   starts with '--- ' (name: the second word of the line)
\*   "tgt"   starts with '+++ '
\*   "hdr"   starts with '@@ '  (start: the number after '-' in the header)
\*   "add"   starts with '+', not with '+++ '
\*   "del"   starts with '-', not with '--- '
\*   "ctx"   starts with a blank
\*   "other" starts with anything else (diff --git, index, '\ No newline ...')
\*   "empty" the empty line
DiffLine(kind, name, start) == [kind |-> kind, name |-> name, start |-> start]

DevNull == <<"/", "d", "e", "v", "/", "n", "u", "l", "l">>

\* The prefixes run_diff passes: parse_unified_diff(diff_output, 'a/', 'b/')
SourcePrefix == <<"a", "/">>

TargetPrefix == <<"b", "/">>

\* str.startswith
StartsWith(s, prefix) ==
    Len(s) >= Len(prefix) /\ SubSeq(s, 1, Len(prefix)) = prefix

\* _parse_diff_filename
ParseDiffFilenameKeepsPrefix(name, prefix) ==
    IF name = DevNull THEN Ok(NoName)
    ELSE IF ~StartsWith(name, prefix) THEN Raise("ValueError")
    ELSE Ok(name)

ParseDiffFilename(name, prefix) ==
    IF name = DevNull THEN Ok(NoName)
    ELSE IF ~StartsWith(name, prefix) THEN Raise("ValueError")
    ELSE Ok(SubSeq(name, Len(prefix) + 1, Len(name)))

\* A local that no assignment has bound yet.
Unbound == <<"unbound">>

\* The locals of _parse_hunks when it is entered, and when it is not running.
HunkLocals(start) ==
    [start |-> start, has_source_start |-> FALSE, source_start |-> 0,
     del_lines |-> <<>>, add_lines |-> <<>>]

NoHunkLocals == HunkLocals(0)

----------------------------------------------------------------------------
(* linter.py: the Linter record. cli.py: linter selection. *)

\* derive_flags: one boolean per style and per language.
DeriveFlags(style, language) ==
    [name \in {"static", "dynamic", "generic", "python", "cpp", "yaml"}
        |-> (name = style \/ name = language)]

\* Linter.__init__
Linter(name, default_config, style, language, can_fix) ==
    [name |-> name, default_config |-> default_config, style |-> style,
     language |-> language, flags |-> DeriveFlags(style, language),
     can_fix |-> can_fix]

\* The rule '+ *', standing for the default filefilter of a linter.
IncludeAll == << <<"+", " ", "*">> >>

\* DEFAULT_CONFIG of a linter: every permitted key, here filefilter and one
\* tool option.
DefaultConfig == [filefilter |-> IncludeAll, config |-> None]

\* LINTERS, as _find_linters collects the LINTER objects of the modules:
\* a python linter, a generic one that can fix, and a cpp linter.
LINTERS ==
    [name \in {"flake8", "header", "doxygen"} |->
        CASE name = "flake8"  -> Linter(name, DefaultConfig, "static", "python", FALSE)
          [] name = "header"  -> Linter(name, DefaultConfig, "static", "generic", TRUE)
          [] name = "doxygen" -> Linter(name, DefaultConfig, "static", "cpp", FALSE)]

\* One item of configs: (linter, linter_config)
Config(linter, linter_config) == [linter |-> linter, config |-> linter_config]

\* A boolexpr, by its syntax tree: True/False, a name, name == '...',
\* not e, e and e, e or e. The strings None and '' are the trees with op
\* "None" and "empty".
BoolConst(value) == [op |-> "const", value |-> value]

BoolName(id) == [op |-> "name", id |-> id]

BoolNameEq(str) == [op |-> "nameeq", str |-> str]

BoolNot(arg) == [op |-> "not", arg |-> arg]

BoolAnd(left, right) == [op |-> "and", left |-> left, right |-> right]

BoolOr(left, right) == [op |-> "or", left |-> left, right |-> right]

BoolNone == [op |-> "None"]

BoolEmpty == [op |-> "empty"]

\* eval(boolexpr, namespace): a name that the namespace does not bind raises
\* NameError; and/or evaluate their right operand only when needed.
RECURSIVE Eval(_, _)
Eval(e, namespace) ==
    CASE e.op = "const" -> Ok(e.value)
      [] e.op = "name" ->
            IF e.id \in DOMAIN namespace THEN Ok(namespace[e.id])
            ELSE Raise("NameError")
      [] e.op = "nameeq" -> Ok(namespace["name"] = e.str)
      [] e.op = "not" ->
            LET r == Eval(e.arg, namespace)
            IN  IF r.exc # "none" THEN r ELSE Ok(~r.val)
      [] e.op = "and" ->
            LET l == Eval(e.left, namespace)
            IN  IF l.exc # "none" THEN l
                ELSE IF ~l.val THEN l ELSE Eval(e.right, namespace)
      [] e.op = "or" ->
            LET l == Eval(e.left, namespace)
            IN  IF l.exc # "none" THEN l
                ELSE IF l.val THEN l ELSE Eval(e.right, namespace)

\* str.count('/') and str.split('/')
RECURSIVE Count(_, _)
Count(s, c) ==
    IF s = <<>> THEN 0 ELSE (IF Head(s) = c THEN 1 ELSE 0) + Count(Tail(s), c)

RECURSIVE Before(_, _)
Before(s, c) ==
    IF s = <<>> \/ Head(s) = c THEN <<>> ELSE <<Head(s)>> \o Before(Tail(s), c)

RECURSIVE After(_, _)
After(s, c) ==
    IF s = <<>> THEN <<>> ELSE IF Head(s) = c THEN Tail(s) ELSE After(Tail(s), c)

Digits == <<"0", "1", "2", "3", "4", "5", "6", "7", "8", "9">>

DigitValue(c) == (CHOOSE d \in 1..10 : Digits[d] = c) - 1

IsDigit(c) == \E d \in 1..10 : Digits[d] = c

RECURSIVE DigitsValue(_, _)
DigitsValue(s, acc) ==
    IF s = <<>> THEN acc ELSE DigitsValue(Tail(s), 10 * acc + DigitValue(Head(s)))

\* int(str): surrounding blanks, an optional sign and decimal digits;
\* anything else raises ValueError.
IntOf(str) ==
    LET s == Strip(str)
        signed == s # <<>> /\ Head(s) \in {"+", "-"}
        body == IF signed THEN Tail(s) ELSE s
    IN  IF body = <<>> \/ \E k \in 1..Len(body) : ~IsDigit(body[k])
        THEN Raise("ValueError")
        ELSE IF signed /\ Head(s) = "-" THEN Ok(0 - DigitsValue(body, 0))
        ELSE Ok(DigitsValue(body, 0))

\* A variant without the test of offset against 1 and step.
GetOffsetStepNoRangeCheck(suffix) ==
    IF suffix = <<>> \/ suffix = NoName THEN Ok(<<0, 1>>)
    ELSE IF Count(suffix, "/") # 1 THEN Raise("ValueError")
    ELSE LET step == IntOf(After(suffix, "/"))
             offset == IntOf(Before(suffix, "/"))
         IN  IF step.exc # "none" THEN Raise(step.exc)
             ELSE IF offset.exc # "none" THEN Raise(offset.exc)
             ELSE Ok(<<offset.val - 1, step.val>>)

\* A variant that returns the offset as written, without the shift to a
\* list index that starts at 0.
GetOffsetStepOneBased(suffix) ==
    LET r == GetOffsetStepNoRangeCheck(suffix)
    IN  IF suffix = <<>> \/ suffix = NoName \/ r.exc # "none" THEN r
        ELSE IF r.val[1] + 1 < 1 \/ r.val[1] + 1 > r.val[2] THEN Raise("ValueError")
        ELSE Ok(<<r.val[1] + 1, r.val[2]>>)

\* get_offset_step(suffix): val is <<offset, step>>
GetOffsetStep(suffix) ==
    IF suffix = <<>> \/ suffix = NoName THEN Ok(<<0, 1>>)
    ELSE IF Count(suffix, "/") # 1 THEN Raise("ValueError")
    ELSE LET step == IntOf(After(suffix, "/"))
             offset == IntOf(Before(suffix, "/"))
         IN  IF step.exc # "none" THEN Raise(step.exc)
             ELSE IF offset.exc # "none" THEN Raise(offset.exc)
             ELSE IF offset.val < 1 \/ offset.val > step.val
                  THEN Raise("ValueError")
             ELSE Ok(<<offset.val - 1, step.val>>)

\* configs[offset::step], for offset >= 0 and step >= 1
RECURSIVE Slice(_, _, _)
Slice(configs, offset, step) ==
    IF offset >= Len(configs) THEN <<>>
    ELSE <<configs[offset + 1]>> \o Slice(configs, offset + step, step)

\* A selection: None, or a list of linter names.
NoSelection == [given |-> FALSE, names |-> <<>>]

Selection(names) == [given |-> TRUE, names |-> names]

InList(x, list) == \E k \in 1..Len(list) : list[k] = x

\* Pass 1 of filter_configs: by linter name
SelectByName(configs, selection) ==
    IF ~(~selection.given \/ selection.names = <<>>)
    THEN SelectSeq(configs, LAMBDA config : InList(config.linter.name, selection.names))
    ELSE configs

\* Pass 2 of filter_configs: the loop from config i on; val is the new list
RECURSIVE BoolexprLoop(_, _, _, _)
BoolexprLoop(oldconfigs, i, boolexpr, configs) ==
    IF i > Len(oldconfigs) THEN Ok(configs)
    ELSE LET config == oldconfigs[i]
             namespace == config.linter.flags @@ ("name" :> config.linter.name)
             r == Eval(boolexpr, namespace)
         IN  IF r.exc # "none" THEN Raise(r.exc)
             ELSE BoolexprLoop(oldconfigs, i + 1, boolexpr,
                               IF r.val THEN Append(configs, config) ELSE configs)

SelectByBoolexpr(configs, boolexpr) ==
    IF ~(boolexpr = BoolNone \/ boolexpr = BoolEmpty)
    THEN BoolexprLoop(configs, 1, boolexpr, <<>>)
    ELSE Ok(configs)

\* filter_configs with pass 3 taken on the list before the two filters
FilterConfigsShardFirst(configs, selection, boolexpr, part) ==
    LET os == GetOffsetStep(part)
    IN  IF os.exc # "none" THEN Raise(os.exc)
        ELSE SelectByBoolexpr(
                SelectByName(Slice(configs, os.val[1], os.val[2]), selection),
                boolexpr)

\* filter_configs
FilterConfigs(configs, selection, boolexpr, part) ==
    LET bynames == SelectByName(configs, selection)
        byexpr == SelectByBoolexpr(bynames, boolexpr)
        os == GetOffsetStep(part)
    IN  IF byexpr.exc # "none" THEN Raise(byexpr.exc)
        ELSE IF os.exc # "none" THEN Raise(os.exc)
        ELSE Ok(Slice(byexpr.val, os.val[1], os.val[2]))

----------------------------------------------------------------------------
(* linter.py: Linter.__call__. cli.py: load_config and main. *)

\* A linter_config as the YAML file gives it: a set of <<key, value>> pairs.
ConfigKeys(config) == { item[1] : item \in config }

ConfigValue(config, key) == (CHOOSE item \in config : item[1] = key)[2]

\* apply_config_defaults: val is the merged config
ApplyConfigDefaults(linter_name, config, default_config) ==
    IF \E key \in ConfigKeys(config) : key \notin DOMAIN default_config
    THEN Raise("ValueError")
    ELSE Ok([key \in DOMAIN default_config |->
                IF key \in ConfigKeys(config) THEN ConfigValue(config, key)
                ELSE default_config[key]])

\* dict.copy(): a new object with the items of heap[ref]; [ref, heap]
DictCopy(heap, ref) ==
    [ref |-> "merged_config", heap |-> ("merged_config" :> heap[ref]) @@ heap]

\* dict.update(other): the object heap[ref] takes the items of heap[other]
DictUpdate(heap, ref, other) ==
    [heap EXCEPT ![ref] =
        [key \in DOMAIN heap[ref] \union DOMAIN heap[other] |->
            IF key \in DOMAIN heap[other] THEN heap[other][key]
            ELSE heap[ref][key]]]

\* A variant that updates default_config itself instead of a copy of it.
ApplyConfigDefaultsInPlace(heap, config, default_config) ==
    IF \E key \in DOMAIN heap[config] : key \notin DOMAIN heap[default_config]
    THEN [exc |-> "ValueError", val |-> None, heap |-> heap]
    ELSE [exc |-> "none", val |-> default_config,
          heap |-> DictUpdate(heap, default_config, config)]

\* apply_config_defaults on dict objects: config and default_config are
\* references into heap; val is the reference of the merged config and heap
\* the objects after the call.
ApplyConfigDefaultsCall(heap, config, default_config) ==
    IF \E key \in DOMAIN heap[config] : key \notin DOMAIN heap[default_config]
    THEN [exc |-> "ValueError", val |-> None, heap |-> heap]
    ELSE LET merged_config == DictCopy(heap, default_config)
         IN  [exc |-> "none", val |-> merged_config.ref,
              heap |-> DictUpdate(merged_config.heap, merged_config.ref, config)]

\* report.filter(config['filefilter']) at linter.py:85. The Report of
\* report.py has no method of this name; the method it has for narrowing
\* the scope by a file filter is filter_files, and the call is read as a
\* call of it.
ReportFilter(files_lines, filefilter) == ReportFilterFiles(files_lines, filefilter)

\* A variant in which show_header is not called.
ReportWithoutHeader(linter_name, files_lines) ==
    [linter_name |-> linter_name, files_lines |-> files_lines,
     messages |-> <<>>, started |-> FALSE]

\* A Report: Report.__init__ followed by show_header
Report(linter_name, files_lines) ==
    [linter_name |-> linter_name, files_lines |-> files_lines,
     messages |-> <<>>, started |-> TRUE]

NoReport ==
    [linter_name |-> None, files_lines |-> <<>>, messages |-> <<>>,
     started |-> FALSE]

\* self.lint(config, report, numproc, fixit): the adapter proposes the
\* findings of its tool to the Report, one call each.
RECURSIVE Lint(_, _, _)
Lint(report, proposals, i) ==
    IF i > Len(proposals) THEN [exc |-> "none", report |-> report]
    ELSE LET p == proposals[i]
             r == ReportCall(report.files_lines, report.messages,
                             p.filename, p.lineno, p.charno, p.text, 1)
         IN  IF r.exc # "none" THEN [exc |-> r.exc, report |-> report]
             ELSE Lint([report EXCEPT !.messages = r.messages], proposals, i + 1)

\* A variant that calls self.lint on the Report as it was handed in.
LinterCallNoNarrowing(linter, config, report, fixit, proposals) ==
    IF fixit /\ ~linter.can_fix
    THEN [exc |-> "ValueError", at |-> "Linter.__call__", report |-> report,
          ran |-> FALSE, shared |-> report.files_lines]
    ELSE LET merged == ApplyConfigDefaults(linter.name, config, linter.default_config)
         IN  IF merged.exc # "none"
             THEN [exc |-> merged.exc, at |-> "apply_config_defaults",
                   report |-> report, ran |-> FALSE,
                   shared |-> report.files_lines]
             ELSE LET body == Lint(report, proposals, 1)
                  IN  [exc |-> body.exc, at |-> "lint",
                       report |-> body.report, ran |-> TRUE,
                       shared |-> report.files_lines]

\* A variant that tests fixit and can_fix after the config is merged.
LinterCallMergesFirst(linter, config, report, fixit, proposals) ==
    LET merged == ApplyConfigDefaults(linter.name, config, linter.default_config)
    IN  IF merged.exc # "none"
        THEN [exc |-> merged.exc, at |-> "apply_config_defaults",
              report |-> report, ran |-> FALSE, shared |-> report.files_lines]
        ELSE IF fixit /\ ~linter.can_fix
        THEN [exc |-> "ValueError", at |-> "Linter.__call__", report |-> report,
              ran |-> FALSE, shared |-> report.files_lines]
        ELSE LET narrowed == ReportFilter(report.files_lines,
                                          merged.val["filefilter"])
             IN  IF narrowed.exc # "none"
                 THEN [exc |-> narrowed.exc, at |-> "matches_filefilter",
                       report |-> report, ran |-> FALSE,
                       shared |-> narrowed.shared]
                 ELSE LET body == Lint([report EXCEPT !.files_lines =
                                           narrowed.files_lines],
                                       proposals, 1)
                      IN  [exc |-> body.exc, at |-> "lint",
                           report |-> body.report, ran |-> TRUE,
                           shared |-> narrowed.shared]

\* Linter.__call__: [exc, at, report, ran, shared]; ran tells whether
\* self.lint was called, shared is the dict the Report was made with, as it
\* is after the call.
LinterCall(linter, config, report, fixit, proposals) ==
    IF fixit /\ ~linter.can_fix
    THEN [exc |-> "ValueError", at |-> "Linter.__call__", report |-> report,
          ran |-> FALSE, shared |-> report.files_lines]
    ELSE LET merged == ApplyConfigDefaults(linter.name, config, linter.default_config)
         IN  IF merged.exc # "none"
             THEN [exc |-> merged.exc, at |-> "apply_config_defaults",
                   report |-> report, ran |-> FALSE,
                   shared |-> report.files_lines]
             ELSE LET narrowed == ReportFilter(report.files_lines,
                                               merged.val["filefilter"])
                  IN  IF narrowed.exc # "none"
                      THEN [exc |-> narrowed.exc, at |-> "matches_filefilter",
                            report |-> report, ran |-> FALSE,
                            shared |-> narrowed.shared]
                      ELSE LET body == Lint([report EXCEPT !.files_lines =
                                                narrowed.files_lines],
                                            proposals, 1)
                           IN  [exc |-> body.exc, at |-> "lint",
                                report |-> body.report, ran |-> TRUE,
                                shared |-> narrowed.shared]

\* One item of raw_config['linters']: a mapping with one key
Mapping(linter_name, linter_config) ==
    [linter_name |-> linter_name, linter_config |-> linter_config]

\* load_config: the loop over raw_config['linters'] from item i on
RECURSIVE LoadLoop(_, _, _, _)
LoadLoop(linters, i, fixers_only, configs) ==
    IF i > Len(linters) THEN Ok(configs)
    ELSE LET mapping == linters[i]
         IN  IF mapping.linter_name \notin DOMAIN LINTERS
             THEN Raise("ValueError")
             ELSE LET linter == LINTERS[mapping.linter_name]
                  IN  IF fixers_only /\ ~linter.can_fix
                      THEN LoadLoop(linters, i + 1, fixers_only, configs)
                      ELSE LoadLoop(linters, i + 1, fixers_only,
                                    Append(configs,
                                           Config(linter, mapping.linter_config)))

\* load_config: val is <<prefilter, configs>>
LoadConfig(raw_config, fixers_only) ==
    LET loaded == LoadLoop(raw_config.linters, 1, fixers_only, <<>>)
    IN  IF loaded.exc # "none" THEN Raise(loaded.exc)
        ELSE Ok(<<raw_config.pre_filefilter, loaded.val>>)

\* The dict comprehension of main over run_diff(...).items():
\* [exc, files_lines]
PreFilter(files_lines, prefilter) ==
    IF \E f \in DOMAIN files_lines : MatchesFilefilter(f, prefilter).exc # "none"
    THEN [exc |-> "ValueError", files_lines |-> <<>>]
    ELSE [exc |-> "none",
          files_lines |->
              [f \in { g \in DOMAIN files_lines :
                         MatchesFilefilter(g, prefilter).val } |-> files_lines[f]]]

\* returncode after `if report.show_messages(): returncode = -1`, with the
\* status taken from the last linter alone
ReturncodeOfLast(returncode, shown) == IF shown THEN -1 ELSE 0

\* returncode after `if report.show_messages(): returncode = -1`
NextReturncode(returncode, shown) == IF shown THEN -1 ELSE returncode

----------------------------------------------------------------------------
(* Inputs of the file filter. *)

\* Paths: a.py, foo/a.py, x/foo/a.py, foo/x/a.py, foo/test/test_a.py is
\* abstracted by its shape f/t/ta; one character stands for one name part.
FilterPaths ==
    { <<"a">>,
      <<"f", "/", "a">>,
      <<"x", "/", "f", "/", "a">>,
      <<"f", "/", "x", "/", "a">>,
      <<"x", "/", "y", "/", "f", "/", "a">>,
      <<"b">> }

\* Glob patterns: *, a, f/*, */a, f/a, x/y/z/f/a (more segments than a path).
FilterPatterns ==
    { <<"*">>,
      <<"a">>,
      <<"f", "/", "*">>,
      <<"*", "/", "a">>,
      <<"f", "/", "a">>,
      <<"?">> }

\* Rules: a first character, a blank, a pattern. 'b' is a malformed prefix.
FilterRules ==
    { <<c, " ">> \o p : c \in {"+", "-", "b"}, p \in FilterPatterns }

RECURSIVE SeqsUpTo(_, _)
SeqsUpTo(S, n) ==
    IF n = 0 THEN { <<>> }
    ELSE LET shorter == SeqsUpTo(S, n - 1)
         IN  shorter \cup { Append(s, x) : s \in shorter, x \in S }

FilterRuleLists == SeqsUpTo(FilterRules, MaxRules)

----------------------------------------------------------------------------
(* Inputs of a Report. *)

ReportNames == { <<"a">>, <<"f", "/", "a">> }

\* lineno and charno as an adapter hands them on: None, or the integer it
\* read from the tool's output (flake8 reports line 0 for a file it cannot
\* tokenize).
ReportLinenos == { NoInt, Int1(0), Int1(1), Int1(2) }

ReportCharnos == { NoInt, Int1(0), Int1(1) }

ReportTexts == { <<"e">> }

ReportNlines == { 1, 2 }

\* Scopes: no file; one file with all lines (no refspec); files with the
\* line sets a diff gave.
ReportScopes ==
    { <<>>,
      (<<"a">> :> AllLines),
      (<<"a">> :> Lines({1})),
      (<<"a">> :> Lines({0, 2})) @@ (<<"f", "/", "a">> :> AllLines) }

ReportFilters ==
    { << <<"+", " ", "*">> >>,
      << <<"-", " ", "f", "/", "*">>, <<"+", " ", "*">> >>,
      << <<"b", " ", "*">> >> }

----------------------------------------------------------------------------
(* Inputs of the diff parser. *)

\* --- a/x, --- /dev/null, --- x (no prefix); +++ b/x, +++ /dev/null, +++ x;
\* @@ -44,0 +45 @@, @@ -1 +1 @@; an added, a deleted and a context line;
\* a line such as `diff --git a/x b/x`; the empty line.
DiffLines ==
    { DiffLine("src", <<"a", "/", "x">>, 0),
      DiffLine("src", DevNull, 0),
      DiffLine("src", <<"x">>, 0),
      DiffLine("tgt", <<"b", "/", "x">>, 0),
      DiffLine("tgt", DevNull, 0),
      DiffLine("tgt", <<"x">>, 0),
      DiffLine("hdr", <<>>, 44),
      DiffLine("hdr", <<>>, 1),
      DiffLine("add", <<>>, 0),
      DiffLine("del", <<>>, 0),
      DiffLine("ctx", <<>>, 0),
      DiffLine("other", <<>>, 0),
      DiffLine("empty", <<>>, 0) }

\* The text of an added or deleted line after its first character.
LineText == <<"l">>

----------------------------------------------------------------------------
(* Inputs of SpecPatch: Patches as parse_unified_diff can return them. *)

LineLists == { <<>>, <<LineText>>, <<LineText, LineText>> }

\* A hunk has a deleted or an added line.
PatchHunks ==
    { Hunk(s, d, a) : s \in -1..MaxStart, d \in LineLists, a \in LineLists }
    \ { Hunk(s, <<>>, <<>>) : s \in -1..MaxStart }

\* One changed file with up to MaxHunks hunks, or one deleted file.
OneFilePatches ==
    { << PatchedFile(<<"x">>, t, hs) >> :
        t \in { <<"x">>, NoName }, hs \in SeqsUpTo(PatchHunks, MaxHunks) }

\* Changed, renamed, new and deleted files, each with at most one hunk.
SmallFiles ==
    { PatchedFile(n[1], n[2], hs) :
        n \in { << <<"x">>, <<"x">> >>, << <<"x">>, <<"y">> >>,
                << NoName, <<"y">> >>, << <<"x">>, NoName >> },
        hs \in { <<>>,
                 << Hunk(0, <<>>, <<LineText>>) >>,
                 << Hunk(1, <<LineText>>, <<>>) >>,
                 << Hunk(1, <<LineText>>, <<LineText, LineText>>) >> } }

\* The Patch of DIFF1 of test_diff.py: a file with the hunks of
\* `@@ -44,0 +45 @@` (one added line) and `@@ -46 +46,0 @@` (one deleted
\* line), a deleted file, and a file with the hunk of `@@ -13 +13,6 @@`.
ExamplePatch ==
    << PatchedFile(<<"x">>, <<"x">>,
                   << Hunk(43, <<>>, <<LineText>>), Hunk(45, <<LineText>>, <<>>) >>),
       PatchedFile(<<"d">>, NoName,
                   << Hunk(0, <<LineText, LineText, LineText>>, <<>>) >>),
       PatchedFile(<<"y">>, <<"y">>,
                   << Hunk(12, <<LineText>>, [k \in 1..6 |-> LineText]) >>) >>

PatchInputs ==
    OneFilePatches \cup SeqsUpTo(SmallFiles, MaxFiles) \cup {ExamplePatch}

----------------------------------------------------------------------------
(* Inputs of linter selection. *)

LinterNames == DOMAIN LINTERS

\* configs as load_config returns them: linters in the order of the
\* configuration file, each with its settings ({} here).
SelectConfigLists ==
    { [k \in 1..Len(names) |-> Config(LINTERS[names[k]], {})] :
        names \in SeqsUpTo(LinterNames, MaxConfigs) }

Selections ==
    { NoSelection, Selection(<<>>), Selection(<<"header", "flake8">>) }

\* None, '', 'True' (the default of --filter), 'not python',
\* "static and name == 'header'", 'cpp or python', and 'rst', a name that is
\* no flag.
BoolExprs ==
    { BoolNone, BoolEmpty, BoolConst(TRUE),
      BoolNot(BoolName("python")),
      BoolAnd(BoolName("static"), BoolNameEq("header")),
      BoolOr(BoolName("cpp"), BoolName("python")),
      BoolName("rst") }

\* None, '', '1/2', '2/2', '2/3', and the malformed '0/3', '4/3', '2',
\* '1/2/3', 'a/3'.
Parts ==
    { NoName, <<>>, <<"1", "/", "2">>, <<"2", "/", "2">>, <<"2", "/", "3">>,
      <<"0", "/", "3">>, <<"4", "/", "3">>, <<"2">>,
      <<"1", "/", "2", "/", "3">>, <<"a", "/", "3">> }

----------------------------------------------------------------------------
(* Inputs of main: the configuration file, the arguments, the diff. *)

\* A rule with a prefix that is neither '+' nor '-'.
BadRules == << <<"b", " ", "*">> >>

\* The rules '- f/*', '+ *': everything outside the directory f.
OutsideF == << <<"-", " ", "f", "/", "*">>, <<"+", " ", "*">> >>

\* Settings of one linter: none; a key that is no key of the linter; a
\* filefilter with a malformed rule; a filefilter that excludes a directory.
LinterConfigs ==
    { {}, { <<"typo", <<>> >> }, { <<"filefilter", BadRules>> },
      { <<"filefilter", OutsideF>> } }

\* Items of the linters section: configured linters, and a name that no
\* module defines.
Mappings ==
    { Mapping(name, config) : name \in {"flake8", "header"}, config \in LinterConfigs }
    \cup { Mapping("unknown", {}) }

RawConfigs ==
    [pre_filefilter : {IncludeAll, OutsideF, BadRules},
     linters : SeqsUpTo(Mappings, MaxLinters)]

\* parse_args: --fix, the positional selection, --filter, --part
Args ==
    [fix : BOOLEAN,
     selection : {NoSelection, Selection(<<"header">>)},
     boolexpr : {BoolConst(TRUE)},
     part : { <<>>, <<"2", "/", "2">>, <<"2">> }]

\* What run_diff returns: no file; a file with all its lines (no refspec);
\* a file with the lines of a diff.
DiffResults ==
    { <<>>, <<"a">> :> AllLines, <<"a">> :> Lines({1}),
      (<<"a">> :> Lines({1})) @@ (<<"f", "/", "a">> :> Lines({1})) }

\* What the tool of a linter finds: nothing, or one finding on line 1 or
\* on line 2 of file a, or on line 1 of file f/a.
Proposal(filename, lineno, charno, text) ==
    [filename |-> filename, lineno |-> lineno, charno |-> charno, text |-> text]

Proposals ==
    { <<>>,
      << Proposal(<<"a">>, Int1(1), Int1(1), <<"e">>) >>,
      << Proposal(<<"a">>, Int1(2), Int1(1), <<"e">>) >>,
      << Proposal(<<"f", "/", "a">>, Int1(1), Int1(1), <<"e">>) >> }

----------------------------------------------------------------------------
(* Inputs of the comparison of Messages. *)

\* Messages as Message.__init__ makes them, over an absent and two present
\* filenames, absent and present positions and two texts; and one object
\* that is no Message.
OrderMessages ==
    { Message(filename, lineno, charno, text, 1).val :
        filename \in { NoName, <<"a">>, <<"f", "/", "a">> },
        lineno \in { NoInt, Int1(1), Int1(2) },
        charno \in { NoInt, Int1(1) },
        text \in { <<"e">>, <<"w">> } }

Operands ==
    { Operand("Message", m) : m \in OrderMessages }
    \cup { Operand("tuple", Message(<<"a">>, Int1(1), Int1(1), <<"e">>, 1).val) }

----------------------------------------------------------------------------
(* SpecFilter: one call of matches_filefilter on drawn arguments. *)

FilterIdle ==
    /\ ff_pc = "idle"
    /\ ff_filename = <<>>
    /\ ff_rules = <<>>
    /\ ff_accepted = Ok(None)

ReportIdle ==
    /\ rp_pc = "idle"
    /\ rp_files_lines = <<>>
    /\ rp_messages = <<>>
    /\ rp_started = FALSE
    /\ rp_printed = <<>>
    /\ rp_op = "none"
    /\ rp_args = <<>>
    /\ rp_ret = Ok(None)

DiffIdle ==
    /\ df_pc = "idle"
    /\ df_lines = <<>>
    /\ df_eof = FALSE
    /\ df_iline = 0
    /\ df_source_filename = Unbound
    /\ df_target_filename = Unbound
    /\ df_start = 0
    /\ df_hunks = FALSE
    /\ df_result = <<>>
    /\ df_h = NoHunkLocals
    /\ df_exc = "none"
    /\ df_files_lines = <<>>

PatchIdle ==
    /\ ps_pc = "idle"
    /\ ps_patch = <<>>
    /\ ps_target_starts = <<>>
    /\ ps_files_lines = <<>>

SelectIdle ==
    /\ fc_pc = "idle"
    /\ fc_configs = <<>>
    /\ fc_selection = NoSelection
    /\ fc_boolexpr = BoolNone
    /\ fc_part = <<>>
    /\ fc_ret = Ok(<<>>)

CallIdle ==
    /\ fn_pc = "idle"
    /\ fn_args = <<>>
    /\ fn_ret = <<>>

MainIdle ==
    /\ mn_pc = "idle"
    /\ mn_raw_config = [pre_filefilter |-> <<>>, linters |-> <<>>]
    /\ mn_args = [fix |-> FALSE, selection |-> NoSelection,
                  boolexpr |-> BoolNone, part |-> <<>>]
    /\ mn_diff = <<>>
    /\ mn_prefilter = <<>>
    /\ mn_configs = <<>>
    /\ mn_files_lines = <<>>
    /\ mn_i = 0
    /\ mn_report = NoReport
    /\ mn_returncode = 0
    /\ mn_exc = [exc |-> "none", at |-> None]
    /\ mn_ran = <<>>
    /\ mn_retained = <<>>

InitFilter ==
    /\ ff_pc = "ready"
    /\ ff_filename \in FilterPaths
    /\ ff_rules \in FilterRuleLists
    /\ ff_accepted = Ok(None)
    /\ ReportIdle
    /\ DiffIdle
    /\ PatchIdle
    /\ SelectIdle
    /\ MainIdle
    /\ CallIdle

CallMatchesFilefilter ==
    /\ ff_pc = "ready"
    /\ ff_accepted' = MatchesFilefilter(ff_filename, ff_rules)
    /\ ff_pc' = "done"
    /\ UNCHANGED <<ff_filename, ff_rules>>
    /\ UNCHANGED <<reportVars, diffVars, patchVars, selectVars, mainVars, callVars>>

NextFilter == CallMatchesFilefilter

vars ==
    <<filterVars, reportVars, diffVars, patchVars, selectVars, mainVars,
      callVars>>

SpecFilter == InitFilter /\ [][NextFilter]_vars

----------------------------------------------------------------------------
(* SpecReport: the life of one Report object. *)

\* Report.__init__
InitReport ==
    /\ rp_pc = "open"
    /\ rp_files_lines \in ReportScopes
    /\ rp_messages = <<>>
    /\ rp_started = FALSE
    /\ rp_printed = <<>>
    /\ rp_op = "init"
    /\ rp_args = <<>>
    /\ rp_ret = Ok(None)
    /\ FilterIdle
    /\ DiffIdle
    /\ PatchIdle
    /\ SelectIdle
    /\ MainIdle
    /\ CallIdle

\* Report.show_header
RpShowHeader ==
    /\ rp_pc = "open"
    /\ ~rp_started
    /\ rp_started' = TRUE
    /\ rp_op' = "show_header"
    /\ rp_args' = <<>>
    /\ rp_ret' = Ok(None)
    /\ UNCHANGED <<rp_pc, rp_files_lines, rp_messages, rp_printed>>
    /\ UNCHANGED <<filterVars, diffVars, patchVars, selectVars, mainVars, callVars>>

\* Report.__call__
RpCall ==
    /\ rp_pc = "open"
    /\ Len(rp_messages) < MaxMessages
    /\ \E filename \in ReportNames, lineno \in ReportLinenos,
          charno \in ReportCharnos, text \in ReportTexts, nline \in ReportNlines :
          LET r == ReportCall(rp_files_lines, rp_messages,
                              filename, lineno, charno, text, nline)
          IN  /\ rp_messages' = r.messages
              /\ rp_ret' = [exc |-> r.exc, val |-> r.val]
              /\ rp_pc' = IF r.exc = "none" THEN "open" ELSE "raised"
              /\ rp_args' = [filename |-> filename, lineno |-> lineno,
                             charno |-> charno, text |-> text, nline |-> nline,
                             messages |-> rp_messages,
                             files_lines |-> rp_files_lines]
    /\ rp_op' = "call"
    /\ UNCHANGED <<rp_files_lines, rp_started, rp_printed>>
    /\ UNCHANGED <<filterVars, diffVars, patchVars, selectVars, mainVars, callVars>>

\* Report.filter_files
RpFilterFiles ==
    /\ rp_pc = "open"
    /\ \E filefilter \in ReportFilters :
          LET r == ReportFilterFiles(rp_files_lines, filefilter)
          IN  /\ rp_files_lines' = r.files_lines
              /\ rp_ret' = [exc |-> r.exc, val |-> None]
              /\ rp_pc' = IF r.exc = "none" THEN "open" ELSE "raised"
              /\ rp_args' = filefilter
    /\ rp_op' = "filter_files"
    /\ UNCHANGED <<rp_messages, rp_started, rp_printed>>
    /\ UNCHANGED <<filterVars, diffVars, patchVars, selectVars, mainVars, callVars>>

\* Report.show_messages
RpShowMessages ==
    /\ rp_pc = "open"
    /\ LET r == ShowMessages(rp_messages, rp_started)
       IN  /\ rp_messages' = r.messages
           /\ rp_printed' = r.printed
           /\ rp_started' = r.started
           /\ rp_ret' = [exc |-> r.exc, val |-> r.val]
           /\ rp_pc' = IF r.exc = "none" THEN "shown" ELSE "raised"
    /\ rp_op' = "show_messages"
    /\ rp_args' = [messages |-> rp_messages]
    /\ UNCHANGED rp_files_lines
    /\ UNCHANGED <<filterVars, diffVars, patchVars, selectVars, mainVars, callVars>>

NextReport == RpShowHeader \/ RpCall \/ RpFilterFiles \/ RpShowMessages

SpecReport == InitReport /\ [][NextReport]_vars

----------------------------------------------------------------------------
(* SpecDiff: parse_unified_diff on a text read line by line, then           *)
(* extract_files_lines on the Patch it returned (cli.py run_diff).          *)

InitDiff ==
    /\ df_pc = "main"
    /\ df_lines = <<>>
    /\ df_eof = FALSE
    /\ df_iline = 0
    /\ df_source_filename = Unbound
    /\ df_target_filename = Unbound
    /\ df_start = 0
    /\ df_hunks = FALSE
    /\ df_result = <<>>
    /\ df_h = NoHunkLocals
    /\ df_exc = "none"
    /\ df_files_lines = <<>>
    /\ FilterIdle
    /\ ReportIdle
    /\ PatchIdle
    /\ SelectIdle
    /\ MainIdle
    /\ CallIdle

\* lines[iline]: a line already read, or the next line of the text.
LineAt ==
    IF df_iline < Len(df_lines) THEN { df_lines[df_iline + 1] }
    ELSE IF df_eof \/ Len(df_lines) >= MaxLines THEN {}
    ELSE DiffLines

Read(line) ==
    df_lines' = IF df_iline < Len(df_lines) THEN df_lines
                ELSE Append(df_lines, line)

\* iline == len(lines)
AtEnd == df_iline = Len(df_lines)

DfRaise(exc) ==
    /\ df_pc' = "raised"
    /\ df_exc' = exc
    /\ UNCHANGED <<df_iline, df_source_filename, df_target_filename, df_start,
                   df_hunks, df_result, df_h, df_files_lines>>

\* diff.py 134-137: a '--- ' line
DfSourceMarker ==
    /\ df_pc = "main"
    /\ \E line \in LineAt :
          /\ line.kind = "src"
          /\ Read(line)
          /\ LET r == ParseDiffFilename(line.name, SourcePrefix)
             IN  IF r.exc # "none" THEN DfRaise(r.exc)
                 ELSE /\ df_source_filename' = r.val
                      /\ df_iline' = df_iline + 1
                      /\ df_hunks' = FALSE
                      /\ UNCHANGED <<df_pc, df_target_filename, df_start,
                                     df_result, df_h, df_exc, df_files_lines>>
    /\ UNCHANGED df_eof
    /\ UNCHANGED <<filterVars, reportVars, patchVars, selectVars, mainVars, callVars>>

\* diff.py 138-141: a '+++ ' line
DfTargetMarker ==
    /\ df_pc = "main"
    /\ \E line \in LineAt :
          /\ line.kind = "tgt"
          /\ Read(line)
          /\ LET r == ParseDiffFilename(line.name, TargetPrefix)
             IN  IF r.exc # "none" THEN DfRaise(r.exc)
                 ELSE /\ df_target_filename' = r.val
                      /\ df_iline' = df_iline + 1
                      /\ df_hunks' = FALSE
                      /\ UNCHANGED <<df_pc, df_source_filename, df_start,
                                     df_result, df_h, df_exc, df_files_lines>>
    /\ UNCHANGED df_eof
    /\ UNCHANGED <<filterVars, reportVars, patchVars, selectVars, mainVars, callVars>>

\* diff.py 142-148: a '@@ ' line. Appending the PatchedFile reads both
\* filenames, which raises UnboundLocalError when a marker has not come.
DfHunkHeader ==
    /\ df_pc = "main"
    /\ \E line \in LineAt :
          /\ line.kind = "hdr"
          /\ Read(line)
          /\ IF ~df_hunks /\ (df_source_filename = Unbound
                              \/ df_target_filename = Unbound)
             THEN /\ df_pc' = "raised"
                  /\ df_exc' = "UnboundLocalError"
                  /\ df_start' = line.start - 1
                  /\ UNCHANGED <<df_iline, df_hunks, df_result>>
             ELSE /\ df_start' = line.start - 1
                  /\ df_hunks' = TRUE
                  /\ df_result' =
                        IF df_hunks THEN df_result
                        ELSE Append(df_result,
                                    PatchedFile(df_source_filename,
                                                df_target_filename, <<>>))
                  /\ df_iline' = df_iline + 1
                  /\ UNCHANGED <<df_pc, df_exc>>
    /\ UNCHANGED <<df_eof, df_source_filename, df_target_filename, df_h,
                   df_files_lines>>
    /\ UNCHANGED <<filterVars, reportVars, patchVars, selectVars, mainVars, callVars>>

\* diff.py 149-151: a line whose first character is '+', '-' or a blank:
\* the assertion, then the call of _parse_hunks (171-173).
DfEnterHunks ==
    /\ df_pc = "main"
    /\ \E line \in LineAt :
          /\ line.kind \in {"add", "del", "ctx"}
          /\ Read(line)
    /\ IF ~df_hunks
       THEN /\ df_pc' = "raised"
            /\ df_exc' = "AssertionError"
            /\ UNCHANGED df_h
       ELSE /\ df_pc' = "hunks"
            /\ df_h' = HunkLocals(df_start)
            /\ UNCHANGED df_exc
    /\ UNCHANGED <<df_eof, df_iline, df_source_filename, df_target_filename,
                   df_start, df_hunks, df_result, df_files_lines>>
    /\ UNCHANGED <<filterVars, reportVars, patchVars, selectVars, mainVars, callVars>>

\* diff.py 152-153: any other line is skipped
DfSkipLine ==
    /\ df_pc = "main"
    /\ \E line \in LineAt :
          /\ line.kind = "other"
          /\ Read(line)
    /\ df_iline' = df_iline + 1
    /\ UNCHANGED <<df_pc, df_eof, df_source_filename, df_target_filename,
                   df_start, df_hunks, df_result, df_h, df_exc, df_files_lines>>
    /\ UNCHANGED <<filterVars, reportVars, patchVars, selectVars, mainVars, callVars>>

\* diff.py 149: line[0] of the empty line raises IndexError
DfEmptyLine ==
    /\ df_pc = "main"
    /\ \E line \in LineAt :
          /\ line.kind = "empty"
          /\ Read(line)
    /\ DfRaise("IndexError")
    /\ UNCHANGED df_eof
    /\ UNCHANGED <<filterVars, reportVars, patchVars, selectVars, mainVars, callVars>>

\* diff.py 132, 154: the text has no further line
DfReturn ==
    /\ df_pc = "main"
    /\ AtEnd
    /\ df_eof' = TRUE
    /\ df_pc' = "parsed"
    /\ UNCHANGED <<df_lines, df_iline, df_source_filename, df_target_filename,
                   df_start, df_hunks, df_result, df_h, df_exc, df_files_lines>>
    /\ UNCHANGED <<filterVars, reportVars, patchVars, selectVars, mainVars, callVars>>

\* A variant that appends the hunk collected so far even when it has no line.
CloseHunkAlways(result, h) ==
    [result EXCEPT ![Len(result)].hunks =
        Append(@, Hunk(h.source_start, h.del_lines, h.add_lines))]

\* diff.py 186-190: the hunk collected so far is appended when it has a line
CloseHunk(result, h) ==
    IF h.add_lines # <<>> \/ h.del_lines # <<>>
    THEN [result EXCEPT ![Len(result)].hunks =
            Append(@, Hunk(h.source_start, h.del_lines, h.add_lines))]
    ELSE result

\* diff.py 176-184: an added or a deleted line
DfHunkBody ==
    /\ df_pc = "hunks"
    /\ \E line \in LineAt :
          /\ line.kind \in {"add", "del"}
          /\ Read(line)
          /\ df_h' =
                [start |-> IF line.kind = "del" THEN df_h.start + 1
                           ELSE df_h.start,
                 has_source_start |-> TRUE,
                 source_start |-> IF df_h.has_source_start
                                  THEN df_h.source_start ELSE df_h.start,
                 del_lines |-> IF line.kind = "del"
                               THEN Append(df_h.del_lines, LineText)
                               ELSE df_h.del_lines,
                 add_lines |-> IF line.kind = "add"
                               THEN Append(df_h.add_lines, LineText)
                               ELSE df_h.add_lines]
    /\ df_iline' = df_iline + 1
    /\ UNCHANGED <<df_pc, df_eof, df_source_filename, df_target_filename,
                   df_start, df_hunks, df_result, df_exc, df_files_lines>>
    /\ UNCHANGED <<filterVars, reportVars, patchVars, selectVars, mainVars, callVars>>

\* diff.py 185-193: a context line closes the hunk and is counted
DfHunkContext ==
    /\ df_pc = "hunks"
    /\ \E line \in LineAt :
          /\ line.kind = "ctx"
          /\ Read(line)
    /\ df_result' = CloseHunk(df_result, df_h)
    /\ df_h' = HunkLocals(df_h.start + 1)
    /\ df_iline' = df_iline + 1
    /\ UNCHANGED <<df_pc, df_eof, df_source_filename, df_target_filename,
                   df_start, df_hunks, df_exc, df_files_lines>>
    /\ UNCHANGED <<filterVars, reportVars, patchVars, selectVars, mainVars, callVars>>

\* diff.py 185-195: any other line, or the end of the text, closes the hunk
\* and returns iline to parse_unified_diff, whose start is as it was
DfHunkReturn ==
    /\ df_pc = "hunks"
    /\ \/ \E line \in LineAt :
             /\ line.kind \in {"src", "tgt", "hdr", "other", "empty"}
             /\ Read(line)
             /\ UNCHANGED df_eof
       \/ /\ AtEnd
          /\ df_eof' = TRUE
          /\ UNCHANGED df_lines
    /\ df_result' = CloseHunk(df_result, df_h)
    /\ df_h' = NoHunkLocals
    /\ df_pc' = "main"
    /\ UNCHANGED <<df_iline, df_source_filename, df_target_filename, df_start,
                   df_hunks, df_exc, df_files_lines>>
    /\ UNCHANGED <<filterVars, reportVars, patchVars, selectVars, mainVars, callVars>>

\* cli.py 192-193: extract_files_lines(patch)
DfExtractFilesLines ==
    /\ df_pc = "parsed"
    /\ df_files_lines' = ExtractFilesLines(df_result)
    /\ df_pc' = "extracted"
    /\ UNCHANGED <<df_lines, df_eof, df_iline, df_source_filename,
                   df_target_filename, df_start, df_hunks, df_result, df_h,
                   df_exc>>
    /\ UNCHANGED <<filterVars, reportVars, patchVars, selectVars, mainVars, callVars>>

NextDiff ==
    \/ DfSourceMarker \/ DfTargetMarker \/ DfHunkHeader \/ DfEnterHunks
    \/ DfSkipLine \/ DfEmptyLine \/ DfReturn
    \/ DfHunkBody \/ DfHunkContext \/ DfHunkReturn
    \/ DfExtractFilesLines

SpecDiff == InitDiff /\ [][NextDiff]_vars

----------------------------------------------------------------------------
(* SpecPatch: the derived positions of a Patch and its line selection. *)

InitPatch ==
    /\ ps_pc = "patch"
    /\ ps_patch \in PatchInputs
    /\ ps_target_starts = <<>>
    /\ ps_files_lines = <<>>
    /\ FilterIdle
    /\ ReportIdle
    /\ DiffIdle
    /\ SelectIdle
    /\ MainIdle
    /\ CallIdle

\* PatchedFile.target_starts of every file of the patch
PsTargetStarts ==
    /\ ps_pc = "patch"
    /\ ps_target_starts' = [i \in 1..Len(ps_patch) |-> TargetStarts(ps_patch[i])]
    /\ ps_pc' = "starts"
    /\ UNCHANGED <<ps_patch, ps_files_lines>>
    /\ UNCHANGED <<filterVars, reportVars, diffVars, selectVars, mainVars, callVars>>

\* extract_files_lines(patch)
PsExtractFilesLines ==
    /\ ps_pc = "starts"
    /\ ps_files_lines' = ExtractFilesLines(ps_patch)
    /\ ps_pc' = "extracted"
    /\ UNCHANGED <<ps_patch, ps_target_starts>>
    /\ UNCHANGED <<filterVars, reportVars, diffVars, selectVars, mainVars, callVars>>

NextPatch == PsTargetStarts \/ PsExtractFilesLines

SpecPatch == InitPatch /\ [][NextPatch]_vars

----------------------------------------------------------------------------
(* SpecSelect: one call of filter_configs on drawn arguments. *)

InitSelect ==
    /\ fc_pc = "ready"
    /\ fc_configs \in SelectConfigLists
    /\ fc_selection \in Selections
    /\ fc_boolexpr \in BoolExprs
    /\ fc_part \in Parts
    /\ fc_ret = Ok(<<>>)
    /\ FilterIdle
    /\ ReportIdle
    /\ DiffIdle
    /\ PatchIdle
    /\ MainIdle
    /\ CallIdle

\* filter_configs(configs, selection, boolexpr, part)
CallFilterConfigs ==
    /\ fc_pc = "ready"
    /\ fc_ret' = FilterConfigs(fc_configs, fc_selection, fc_boolexpr, fc_part)
    /\ fc_pc' = "done"
    /\ UNCHANGED <<fc_configs, fc_selection, fc_boolexpr, fc_part>>
    /\ UNCHANGED <<filterVars, reportVars, diffVars, patchVars, mainVars, callVars>>

NextSelect == CallFilterConfigs

SpecSelect == InitSelect /\ [][NextSelect]_vars

----------------------------------------------------------------------------
(* Spec: a run of main. *)

Init ==
    /\ mn_pc = "start"
    /\ mn_raw_config \in RawConfigs
    /\ mn_args \in Args
    /\ mn_diff \in DiffResults
    /\ mn_prefilter = <<>>
    /\ mn_configs = <<>>
    /\ mn_files_lines = <<>>
    /\ mn_i = 0
    /\ mn_report = NoReport
    /\ mn_returncode = 0
    /\ mn_exc = [exc |-> "none", at |-> None]
    /\ mn_ran = <<>>
    /\ mn_retained = <<>>
    /\ FilterIdle
    /\ ReportIdle
    /\ DiffIdle
    /\ PatchIdle
    /\ SelectIdle
    /\ CallIdle

MnRaise(exc, at) ==
    /\ mn_pc' = "raised"
    /\ mn_exc' = [exc |-> exc, at |-> at]

\* prefilter, configs = load_config('.cardboardlint.yml', fixers_only=args.fix)
MnLoadConfig ==
    /\ mn_pc = "start"
    /\ LET r == LoadConfig(mn_raw_config, mn_args.fix)
       IN  IF r.exc # "none"
           THEN /\ MnRaise(r.exc, "load_config")
                /\ UNCHANGED <<mn_prefilter, mn_configs>>
           ELSE /\ mn_prefilter' = r.val[1]
                /\ mn_configs' = r.val[2]
                /\ mn_pc' = "loaded"
                /\ UNCHANGED mn_exc
    /\ UNCHANGED <<mn_raw_config, mn_args, mn_diff, mn_files_lines, mn_i,
                   mn_report, mn_returncode, mn_ran, mn_retained>>
    /\ UNCHANGED <<filterVars, reportVars, diffVars, patchVars, selectVars, callVars>>

\* files_lines = {... in run_diff(args.refspec).items() if matches_filefilter(...)}
MnRunDiff ==
    /\ mn_pc = "loaded"
    /\ LET r == PreFilter(mn_diff, mn_prefilter)
       IN  IF r.exc # "none"
           THEN /\ MnRaise(r.exc, "matches_filefilter")
                /\ UNCHANGED mn_files_lines
           ELSE /\ mn_files_lines' = r.files_lines
                /\ mn_pc' = "prefiltered"
                /\ UNCHANGED mn_exc
    /\ UNCHANGED <<mn_raw_config, mn_args, mn_diff, mn_prefilter, mn_configs,
                   mn_i, mn_report, mn_returncode, mn_ran, mn_retained>>
    /\ UNCHANGED <<filterVars, reportVars, diffVars, patchVars, selectVars, callVars>>

\* configs = filter_configs(...); returncode = 0
MnFilterConfigs ==
    /\ mn_pc = "prefiltered"
    /\ LET r == FilterConfigs(mn_configs, mn_args.selection, mn_args.boolexpr,
                              mn_args.part)
       IN  IF r.exc # "none"
           THEN /\ MnRaise(r.exc, "filter_configs")
                /\ UNCHANGED <<mn_configs, mn_i>>
           ELSE /\ mn_configs' = r.val
                /\ mn_i' = 1
                /\ mn_pc' = "loop"
                /\ UNCHANGED mn_exc
    /\ mn_returncode' = 0
    /\ UNCHANGED <<mn_raw_config, mn_args, mn_diff, mn_prefilter,
                   mn_files_lines, mn_report, mn_ran, mn_retained>>
    /\ UNCHANGED <<filterVars, reportVars, diffVars, patchVars, selectVars, callVars>>

\* report = Report(linter.name, files_lines); report.show_header()
MnShowHeader ==
    /\ mn_pc = "loop"
    /\ mn_i <= Len(mn_configs)
    /\ mn_report' = Report(mn_configs[mn_i].linter.name, mn_files_lines)
    /\ mn_pc' = "call"
    /\ UNCHANGED <<mn_raw_config, mn_args, mn_diff, mn_prefilter, mn_configs,
                   mn_files_lines, mn_i, mn_returncode, mn_exc, mn_ran,
                   mn_retained>>
    /\ UNCHANGED <<filterVars, reportVars, diffVars, patchVars, selectVars, callVars>>

\* linter(linter_config, report, args.numproc, args.fix). The Report holds
\* the dict files_lines of main, not a copy of it.
MnLinterCall ==
    /\ mn_pc = "call"
    /\ \E proposals \in Proposals :
          LET r == LinterCall(mn_configs[mn_i].linter, mn_configs[mn_i].config,
                              mn_report, mn_args.fix, proposals)
          IN  /\ mn_report' = r.report
              /\ mn_ran' = IF r.ran THEN Append(mn_ran, mn_configs[mn_i].linter.name)
                           ELSE mn_ran
              /\ mn_files_lines' = r.shared
              /\ IF r.exc # "none"
                 THEN MnRaise(r.exc, r.at)
                 ELSE mn_pc' = "show" /\ UNCHANGED mn_exc
    /\ UNCHANGED <<mn_raw_config, mn_args, mn_diff, mn_prefilter, mn_configs,
                   mn_i, mn_returncode, mn_retained>>
    /\ UNCHANGED <<filterVars, reportVars, diffVars, patchVars, selectVars, callVars>>

\* if report.show_messages(): returncode = -1
MnShowMessages ==
    /\ mn_pc = "show"
    /\ LET r == ShowMessages(mn_report.messages, mn_report.started)
       IN  /\ mn_report' = [mn_report EXCEPT !.messages = r.messages]
           /\ IF r.exc # "none"
              THEN /\ MnRaise(r.exc, "show_messages")
                   /\ UNCHANGED <<mn_returncode, mn_i, mn_retained>>
              ELSE /\ mn_returncode' = NextReturncode(mn_returncode, r.val)
                   /\ mn_retained' = Append(mn_retained, Len(mn_report.messages))
                   /\ mn_i' = mn_i + 1
                   /\ mn_pc' = "loop"
                   /\ UNCHANGED mn_exc
    /\ UNCHANGED <<mn_raw_config, mn_args, mn_diff, mn_prefilter, mn_configs,
                   mn_files_lines, mn_ran>>
    /\ UNCHANGED <<filterVars, reportVars, diffVars, patchVars, selectVars, callVars>>

\* sys.exit(returncode)
MnExit ==
    /\ mn_pc = "loop"
    /\ mn_i > Len(mn_configs)
    /\ mn_pc' = "exit"
    /\ UNCHANGED <<mn_raw_config, mn_args, mn_diff, mn_prefilter, mn_configs,
                   mn_files_lines, mn_i, mn_report, mn_returncode, mn_exc,
                   mn_ran, mn_retained>>
    /\ UNCHANGED <<filterVars, reportVars, diffVars, patchVars, selectVars, callVars>>

Next ==
    \/ MnLoadConfig
    \/ MnRunDiff
    \/ MnFilterConfigs
    \/ MnShowHeader
    \/ MnLinterCall
    \/ MnShowMessages
    \/ MnExit

Spec == Init /\ [][Next]_vars

----------------------------------------------------------------------------
(* SpecOrder: the comparisons among three drawn objects. *)

InitOrder ==
    /\ fn_pc = "ready"
    /\ fn_args \in [a : Operands, b : Operands, c : Operands]
    /\ fn_ret = <<>>
    /\ FilterIdle
    /\ ReportIdle
    /\ DiffIdle
    /\ PatchIdle
    /\ SelectIdle
    /\ MainIdle

\* a < b, b < a, b < c, a < c
CallLess ==
    /\ fn_pc = "ready"
    /\ fn_ret' = [ab |-> Less(fn_args.a, fn_args.b),
                  ba |-> Less(fn_args.b, fn_args.a),
                  bc |-> Less(fn_args.b, fn_args.c),
                  ac |-> Less(fn_args.a, fn_args.c)]
    /\ fn_pc' = "done"
    /\ UNCHANGED fn_args
    /\ UNCHANGED <<filterVars, reportVars, diffVars, patchVars, selectVars,
                   mainVars>>

NextOrder == CallLess

SpecOrder == InitOrder /\ [][NextOrder]_vars

----------------------------------------------------------------------------
(* SpecShard: get_offset_step on a drawn suffix string. *)

\* The characters of the suffix strings drawn.
PartChars == {"0", "1", "2", "3", "/", "-", "+", "a", " "}

\* None and every string of up to MaxPartLen of these characters.
Suffixes ==
    {NoName} \union UNION { [1..n -> PartChars] : n \in 0..MaxPartLen }

InitShard ==
    /\ fn_pc = "ready"
    /\ fn_args \in [suffix : Suffixes]
    /\ fn_ret = <<>>
    /\ FilterIdle
    /\ ReportIdle
    /\ DiffIdle
    /\ PatchIdle
    /\ SelectIdle
    /\ MainIdle

\* get_offset_step(suffix)
CallGetOffsetStep ==
    /\ fn_pc = "ready"
    /\ fn_ret' = GetOffsetStep(fn_args.suffix)
    /\ fn_pc' = "done"
    /\ UNCHANGED fn_args
    /\ UNCHANGED <<filterVars, reportVars, diffVars, patchVars, selectVars,
                   mainVars>>

NextShard == CallGetOffsetStep

SpecShard == InitShard /\ [][NextShard]_vars

----------------------------------------------------------------------------
(* SpecDefaults: apply_config_defaults on two drawn dicts. *)

\* The keys of the dicts of test_apply_config_defaults.
DictKeys == {"a", "b", "c"}

\* Every dict with some of these keys and values up to MaxValue.
Dicts == UNION { [keys -> 0..MaxValue] : keys \in SUBSET DictKeys }

InitDefaults ==
    /\ fn_pc = "ready"
    /\ fn_args \in { [heap |-> [config |-> c, default_config |-> d]] :
                        c \in Dicts, d \in Dicts }
    /\ fn_ret = <<>>
    /\ FilterIdle
    /\ ReportIdle
    /\ DiffIdle
    /\ PatchIdle
    /\ SelectIdle
    /\ MainIdle

\* apply_config_defaults(linter_name, config, default_config)
CallApplyConfigDefaults ==
    /\ fn_pc = "ready"
    /\ fn_ret' = ApplyConfigDefaultsCall(fn_args.heap, "config", "default_config")
    /\ fn_pc' = "done"
    /\ UNCHANGED fn_args
    /\ UNCHANGED <<filterVars, reportVars, diffVars, patchVars, selectVars,
                   mainVars>>

NextDefaults == CallApplyConfigDefaults

SpecDefaults == InitDefaults /\ [][NextDefaults]_vars

----------------------------------------------------------------------------
(* SpecFix: a run of main, or one call of a Linter object on its own. *)

\* The arguments of a call of a Linter object: the linter, its config, a
\* Report whose header is shown, the fix flag, and what its tool finds.
LinterCallInputs ==
    [linter : { LINTERS[name] : name \in DOMAIN LINTERS },
     config : LinterConfigs,
     report : { Report(None, files_lines) : files_lines \in DiffResults },
     fixit : BOOLEAN,
     proposals : Proposals]

InitLinter ==
    /\ fn_pc = "ready"
    /\ fn_args \in LinterCallInputs
    /\ fn_ret = <<>>
    /\ FilterIdle
    /\ ReportIdle
    /\ DiffIdle
    /\ PatchIdle
    /\ SelectIdle
    /\ MainIdle

InitFix == Init \/ InitLinter

\* linter(config, report, numproc, fixit)
CallLinter ==
    /\ fn_pc = "ready"
    /\ fn_ret' = LinterCall(fn_args.linter, fn_args.config, fn_args.report,
                            fn_args.fixit, fn_args.proposals)
    /\ fn_pc' = "done"
    /\ UNCHANGED fn_args
    /\ UNCHANGED <<filterVars, reportVars, diffVars, patchVars, selectVars,
                   mainVars>>

NextFix == Next \/ CallLinter

SpecFix == InitFix /\ [][NextFix]_vars

----------------------------------------------------------------------------
(* SpecRender: proposals to a Report of one file with all its lines in     *)
(* scope, then show_messages.                                              *)

\* Findings on file a with text e: on no line or on line 1, over one line
\* or two.
RenderProposals ==
    [filename : { <<"a">> }, lineno : {NoInt, Int1(1)}, charno : {Int1(1)},
     text : { <<"e">> }, nline : {1, 2}]

\* The calls report(...) of a linter body from proposal i on: [exc, messages]
RECURSIVE ProposeAll(_, _, _, _)
ProposeAll(files_lines, messages, proposals, i) ==
    IF i > Len(proposals) THEN [exc |-> "none", messages |-> messages]
    ELSE LET p == proposals[i]
             r == ReportCall(files_lines, messages, p.filename, p.lineno,
                             p.charno, p.text, p.nline)
         IN  IF r.exc # "none" THEN [exc |-> r.exc, messages |-> messages]
             ELSE ProposeAll(files_lines, r.messages, proposals, i + 1)

InitRender ==
    /\ fn_pc = "ready"
    /\ fn_args \in [proposals : SeqsUpTo(RenderProposals, MaxRendered)]
    /\ fn_ret = <<>>
    /\ FilterIdle
    /\ ReportIdle
    /\ DiffIdle
    /\ PatchIdle
    /\ SelectIdle
    /\ MainIdle

\* report = Report(name, {'a': None}); report.show_header(); report(...) ...
CallProposeAll ==
    /\ fn_pc = "ready"
    /\ fn_ret' = ProposeAll(<<"a">> :> AllLines, <<>>, fn_args.proposals, 1)
    /\ fn_pc' = IF fn_ret'.exc = "none" THEN "proposed" ELSE "raised"
    /\ UNCHANGED fn_args
    /\ UNCHANGED <<filterVars, reportVars, diffVars, patchVars, selectVars,
                   mainVars>>

\* report.show_messages()
CallShowMessages ==
    /\ fn_pc = "proposed"
    /\ fn_ret' = ShowMessages(fn_ret.messages, TRUE)
    /\ fn_pc' = "shown"
    /\ UNCHANGED fn_args
    /\ UNCHANGED <<filterVars, reportVars, diffVars, patchVars, selectVars,
                   mainVars>>

NextRender == CallProposeAll \/ CallShowMessages

SpecRender == InitRender /\ [][NextRender]_vars

----------------------------------------------------------------------------
(* SpecParts: filter_configs for each of the parts 1/M .. M/M of one list. *)

\* The part string 'N/M' of one decimal digit each
PartString(N, M) == <<Digits[N + 1], "/", Digits[M + 1]>>

\* The items of a config list are objects of their own: each item carries
\* its position in the list, of which filter_configs reads nothing.
Tagged(configs) ==
    [p \in 1..Len(configs) |->
        [linter |-> configs[p].linter, config |-> configs[p].config, pos |-> p]]

PartConfigLists ==
    { Tagged([k \in 1..Len(names) |-> Config(LINTERS[names[k]], {})]) :
        names \in SeqsUpTo(LinterNames, MaxPartConfigs) }

InitParts ==
    /\ fn_pc = "ready"
    /\ fn_args \in [configs : PartConfigLists, selection : Selections,
                    boolexpr : BoolExprs]
    /\ fn_ret = <<>>
    /\ FilterIdle
    /\ ReportIdle
    /\ DiffIdle
    /\ PatchIdle
    /\ SelectIdle
    /\ MainIdle

\* filter_configs(configs, selection, boolexpr, '') and
\* filter_configs(configs, selection, boolexpr, 'N/M') for N = 1 .. M
CallShards ==
    /\ fn_pc = "ready"
    /\ \E M \in 1..MaxShards :
        fn_ret' =
            [M |-> M,
             retained |-> FilterConfigs(fn_args.configs, fn_args.selection,
                                        fn_args.boolexpr, <<>>),
             shards |-> [N \in 1..M |->
                            FilterConfigs(fn_args.configs, fn_args.selection,
                                          fn_args.boolexpr, PartString(N, M))]]
    /\ fn_pc' = "sharded"
    /\ UNCHANGED fn_args
    /\ UNCHANGED <<filterVars, reportVars, diffVars, patchVars, selectVars,
                   mainVars>>

NextParts == CallShards

SpecParts == InitParts /\ [][NextParts]_vars

----------------------------------------------------------------------------
(* Claims about the file filter, checked under SpecFilter. *)

SetMin(S) == CHOOSE x \in S : \A y \in S : x <= y

\* The rules of a list whose pattern matches the path, by position.
MatchingRules(filename, rules) ==
    { i \in 1..Len(rules) : Fnmatch(filename, RulePattern(rules[i])) }

\* C3. Filter first-match: for every path and every well-formed rule list
\* the call returns the polarity of the leftmost rule whose pattern matches
\* the path ('+' included, '-' excluded), whatever rules follow it, and
\* excluded when no rule matches or the list is empty.
C3_FilterFirstMatch ==
    (ff_pc = "done" /\ \A i \in 1..Len(ff_rules) : ff_rules[i][1] \in {"+", "-"})
        => LET m == MatchingRules(ff_filename, ff_rules)
           IN  /\ ff_accepted.exc = "none"
               /\ ff_accepted.val =
                    (IF m = {} THEN FALSE ELSE ff_rules[SetMin(m)][1] = "+")

\* A '-' rule that matches, followed by a '+' rule that matches as well:
\* the path is excluded.
C3_Witness ==
    /\ ff_pc = "done"
    /\ Len(ff_rules) = 2
    /\ ff_rules[1][1] = "-" /\ ff_rules[2][1] = "+"
    /\ MatchingRules(ff_filename, ff_rules) = {1, 2}
    /\ ff_accepted = Ok(FALSE)

\* A path or pattern cut at its directory separators.
RECURSIVE SplitSep(_, _)
SplitSep(s, cur) ==
    IF s = <<>> THEN <<cur>>
    ELSE IF Head(s) = "/" THEN <<cur>> \o SplitSep(Tail(s), <<>>)
    ELSE SplitSep(Tail(s), Append(cur, Head(s)))

Segments(s) == SplitSep(s, <<>>)

\* Segment-tail matching as the claim words it: the pattern has no more
\* segments than the path, and each pattern segment matches the path segment
\* at the same distance from the end.
SegmentTailMatch(filename, pattern) ==
    LET fs == Segments(filename)
        ps == Segments(pattern)
    IN  /\ Len(ps) <= Len(fs)
        /\ \A k \in 1..Len(ps) :
              Fnmatch(fs[Len(fs) - Len(ps) + k], ps[k])

\* C4. Segment-tail matching: a rule matches a path exactly when its
\* pattern's segments match the trailing segments of the path, so a
\* well-formed rule list returns the polarity of the first rule that matches
\* in that sense (+ f/* includes x/y/f/a, and does not reach f/x/a).
C4_SegmentTailMatching ==
    (ff_pc = "done" /\ \A i \in 1..Len(ff_rules) : ff_rules[i][1] \in {"+", "-"})
        => LET m == { i \in 1..Len(ff_rules) :
                        SegmentTailMatch(ff_filename, RulePattern(ff_rules[i])) }
           IN  /\ ff_accepted.exc = "none"
               /\ ff_accepted.val =
                    (IF m = {} THEN FALSE ELSE ff_rules[SetMin(m)][1] = "+")

\* C5. Malformed filter rule: a rule list holding a rule whose first
\* character is neither '+' nor '-' makes the call raise ValueError, at every
\* position of that rule and also when an earlier rule matches the path.
C5_MalformedRuleRaises ==
    (ff_pc = "done" /\ \E i \in 1..Len(ff_rules) : Head(ff_rules[i]) \notin {"+", "-"})
        => ff_accepted.exc = "ValueError"

\* The bad rule comes second, after a well-formed rule that matches.
C5_Witness ==
    /\ ff_pc = "done"
    /\ Len(ff_rules) = 2
    /\ Head(ff_rules[1]) = "+"
    /\ Fnmatch(ff_filename, RulePattern(ff_rules[1]))
    /\ Head(ff_rules[2]) = "b"
    /\ ff_accepted.exc = "ValueError"

----------------------------------------------------------------------------
(* Claims about the Report, checked under SpecReport. *)

\* The acceptance gate as the claim words it, for the proposal in rp_args.
GateOfClaim ==
    /\ rp_args.filename \in DOMAIN rp_files_lines
    /\ \/ rp_files_lines[rp_args.filename].all
       \/ rp_args.lineno = NoInt
       \/ rp_args.lineno[1] \in rp_files_lines[rp_args.filename].lines

ValidPositions ==
    /\ rp_args.lineno = NoInt \/ rp_args.lineno[1] > 0
    /\ rp_args.charno = NoInt \/ rp_args.charno[1] > 0

\* C1 as claimed. Acceptance gate: every call Report(file, line, char, text)
\* returns true when file is a key of the scope and (the file's scope is all
\* lines, or line is absent, or line is in the file's line set), and returns
\* false in every other case.
C1_AcceptanceGate ==
    (rp_op = "call" /\ rp_args.nline = 1)
        => /\ rp_ret.exc = "none"
           /\ rp_ret.val = GateOfClaim

\* C1 as amended. The same for a proposal whose line and char are each absent
\* or strictly positive; a proposal with a line or char that is present and
\* not positive returns false when the gate rejects it and raises TypeError
\* when the gate lets it through.
C1_AcceptanceGateValidPositions ==
    (rp_op = "call" /\ rp_args.nline = 1)
        => IF ValidPositions
           THEN rp_ret.exc = "none" /\ rp_ret.val = GateOfClaim
           ELSE IF GateOfClaim THEN rp_ret.exc = "TypeError"
           ELSE rp_ret = Ok(FALSE)

\* A line of the file's line set is accepted, and another line is not.
C1_Witness ==
    /\ rp_op = "call"
    /\ rp_args.nline = 1
    /\ rp_args.filename = <<"a">>
    /\ rp_files_lines = (<<"a">> :> Lines({1}))
    /\ rp_args.lineno = Int1(1)
    /\ rp_args.charno = Int1(1)
    /\ rp_ret = Ok(TRUE)
    /\ Len(rp_messages) = 2
    /\ rp_messages[1].lineno = NoInt

----------------------------------------------------------------------------
(* Claims about the diff parser and the line selector. *)

\* The diff of the scenario: --- a/x, +++ b/x, @@ -44,0 +45 @@, one '+' line.
ScenarioInsert ==
    << DiffLine("src", <<"a", "/", "x">>, 0), DiffLine("tgt", <<"b", "/", "x">>, 0),
       DiffLine("hdr", <<>>, 44), DiffLine("add", <<>>, 0) >>

\* --- a/x, +++ b/x, @@ -1 +1 @@, one '-' line and one '+' line: line 1 of
\* the final file is the new line.
ScenarioReplaceFirst ==
    << DiffLine("src", <<"a", "/", "x">>, 0), DiffLine("tgt", <<"b", "/", "x">>, 0),
       DiffLine("hdr", <<>>, 1), DiffLine("del", <<>>, 0), DiffLine("add", <<>>, 0) >>

\* C2. Line Selector, diff mode: the selected numbers are the 1-based line
\* numbers the added lines have in the final file; the diff --- a/x, +++ b/x,
\* @@ -44,0 +45 @@ with one '+' line yields x -> {45}, and a replacement of
\* line 1 yields x -> {1}.
C2_LineSelectorOneBased ==
    df_pc = "extracted"
        => /\ df_lines = ScenarioInsert
                => df_files_lines = (<<"x">> :> Lines({45}))
           /\ df_lines = ScenarioReplaceFirst
                => df_files_lines = (<<"x">> :> Lines({1}))

\* The sum of target_length - source_length over the hunks before hunk k.
RECURSIVE OffsetBefore(_, _)
OffsetBefore(hunks, k) ==
    IF k <= 1 THEN 0
    ELSE OffsetBefore(hunks, k - 1)
         + Len(hunks[k - 1].add_lines) - Len(hunks[k - 1].del_lines)

\* C9. Running offset: target_starts[k] of every PatchedFile is the
\* source_start of hunk k plus the sum, over the hunks before k, of
\* target_length - source_length; a file whose hunks all replace as many
\* lines as they delete has target_starts equal to source_starts.
C9_RunningOffset ==
    ps_pc \in {"starts", "extracted"}
        => \A i \in 1..Len(ps_patch) :
              LET hunks == ps_patch[i].hunks
              IN  /\ Len(ps_target_starts[i]) = Len(hunks)
                  /\ \A k \in 1..Len(hunks) :
                        ps_target_starts[i][k] =
                            hunks[k].source_start + OffsetBefore(hunks, k)
                  /\ (\A k \in 1..Len(hunks) :
                        Len(hunks[k].add_lines) = Len(hunks[k].del_lines))
                        => ps_target_starts[i] = SourceStarts(ps_patch[i])

\* Two hunks, the first adding two lines and deleting none: the second hunk
\* lies two lines further down in the final file.
C9_Witness ==
    /\ ps_pc = "starts"
    /\ Len(ps_patch) = 1
    /\ Len(ps_patch[1].hunks) = 2
    /\ Len(ps_patch[1].hunks[1].add_lines) = 2
    /\ ps_patch[1].hunks[1].del_lines = <<>>
    /\ ps_target_starts[1][2] = ps_patch[1].hunks[2].source_start + 2

\* C10. Deletion exclusion: the keys of the mapping extract_files_lines
\* returns are the target filenames of the PatchedFiles that have one; a
\* PatchedFile whose target is absent adds no key.
C10_DeletionExclusion ==
    ps_pc = "extracted"
        => /\ DOMAIN ps_files_lines =
                { ps_patch[i].target_filename :
                    i \in { j \in 1..Len(ps_patch) :
                              ps_patch[j].target_filename # NoName } }
           /\ NoName \notin DOMAIN ps_files_lines

\* A deleted file with a hunk, after a changed file: only the changed file
\* is a key.
C10_Witness ==
    /\ ps_pc = "extracted"
    /\ Len(ps_patch) = 2
    /\ ps_patch[1].target_filename = <<"y">>
    /\ ps_patch[2].target_filename = NoName
    /\ ps_patch[2].hunks # <<>>
    /\ DOMAIN ps_files_lines = { <<"y">> }

----------------------------------------------------------------------------
(* Claims about linter selection. *)

\* What the claim says of the two filters: a config is kept iff its linter
\* is named in the selection (if one is given and not empty) and the
\* boolexpr (if given and not empty) is true of its flags and name.
KeptByClaim(config, selection, boolexpr) ==
    /\ (selection.given /\ selection.names # <<>>)
            => InList(config.linter.name, selection.names)
    /\ (boolexpr # BoolNone /\ boolexpr # BoolEmpty)
            => LET r == Eval(boolexpr,
                             config.linter.flags @@ ("name" :> config.linter.name))
               IN  r.exc = "none" /\ r.val

\* The shard N and the group count M of a part 'N/M' of one digit each.
ShardOf(part) == <<DigitValue(part[1]), DigitValue(part[3])>>

WellFormedPart(part) ==
    /\ part # NoName
    /\ Len(part) = 3
    /\ IsDigit(part[1]) /\ part[2] = "/" /\ IsDigit(part[3])
    /\ 1 <= ShardOf(part)[1] /\ ShardOf(part)[1] <= ShardOf(part)[2]

\* C7. Linter selection: filter_configs keeps the configs whose linter is in
\* the selection, then those for which boolexpr is true, both in the order
\* given, and then returns the stride slice filtered[N-1::M] of that
\* filtered list (the whole list when part is '' or None); shard '2/3' of 6
\* retained configs is the configs at zero-based indices 1 and 4.
C7_LinterSelection ==
    (fc_pc = "done" /\ fc_ret.exc = "none")
        => LET filtered == SelectSeq(fc_configs,
                    LAMBDA config : KeptByClaim(config, fc_selection, fc_boolexpr))
               result == fc_ret.val
           IN  /\ fc_part \in {NoName, <<>>} => result = filtered
               /\ WellFormedPart(fc_part) =>
                    LET N == ShardOf(fc_part)[1]
                        M == ShardOf(fc_part)[2]
                        indices == { k \in 0..(Len(filtered) - 1) :
                                        k >= N - 1 /\ (k - (N - 1)) % M = 0 }
                    IN  /\ Len(result) = Cardinality(indices)
                        /\ \A j \in 1..Len(result) :
                              result[j] = filtered[(N - 1) + (j - 1) * M + 1]
               /\ (fc_part = <<"2", "/", "3">> /\ Len(filtered) = 6)
                    => result = <<filtered[2], filtered[5]>>

\* Six configs, all retained by the selection and the boolexpr, shard '2/3':
\* the second and the fifth are returned.
C7_Witness ==
    /\ fc_pc = "done"
    /\ fc_part = <<"2", "/", "3">>
    /\ fc_configs = [k \in 1..6 |->
            Config(LINTERS[<<"flake8", "header", "flake8", "flake8",
                             "flake8", "header">>[k]], {})]
    /\ fc_selection = Selection(<<"header", "flake8">>)
    /\ fc_boolexpr = BoolConst(TRUE)
    /\ fc_ret = Ok(<<Config(LINTERS["header"], {}), Config(LINTERS["flake8"], {})>>)

----------------------------------------------------------------------------
(* Claims about main. *)

ConfigurationError ==
    \/ \E k \in 1..Len(mn_raw_config.linters) :
          LET mapping == mn_raw_config.linters[k]
          IN  \/ mapping.linter_name \notin DOMAIN LINTERS
              \/ \E key \in ConfigKeys(mapping.linter_config) :
                    key \notin DOMAIN DefaultConfig
              \/ /\ "filefilter" \in ConfigKeys(mapping.linter_config)
                 /\ BadRule(ConfigValue(mapping.linter_config, "filefilter"))
    \/ BadRule(mn_raw_config.pre_filefilter)
    \/ GetOffsetStep(mn_args.part).exc # "none"

\* C8. No partial execution on configuration errors: in a run of main whose
\* configuration has an unknown linter name, an unknown config key, a
\* malformed part or a filter rule with a bad prefix, no linter body is
\* ever executed and main does not run to its end.
C8_NoPartialExecution ==
    ConfigurationError => (mn_ran = <<>> /\ mn_pc # "exit")

----------------------------------------------------------------------------
(* Claims about the hunks parse_unified_diff returns. *)

\* The kinds of the lines of the text read so far.
KindsRead == { df_lines[k].kind : k \in 1..Len(df_lines) }

\* C11. Hunk non-emptiness: no Hunk of a PatchedFile that parse_unified_diff
\* builds or returns has both add_lines and del_lines empty; a text without
\* added and deleted lines (hunk-header sections of context lines only)
\* gives PatchedFiles with zero hunks.
C11_HunkNonEmptiness ==
    /\ \A i \in 1..Len(df_result) :
          \A k \in 1..Len(df_result[i].hunks) :
              \/ df_result[i].hunks[k].add_lines # <<>>
              \/ df_result[i].hunks[k].del_lines # <<>>
    /\ (df_pc = "parsed" /\ KindsRead \cap {"add", "del"} = {})
            => \A i \in 1..Len(df_result) : df_result[i].hunks = <<>>

\* --- a/x, +++ b/x, @@ -44,0 +45 @@ and two context lines: one PatchedFile
\* without hunks is returned.
C11_Witness ==
    /\ df_pc = "parsed"
    /\ df_lines = << DiffLine("src", <<"a", "/", "x">>, 0),
                     DiffLine("tgt", <<"b", "/", "x">>, 0),
                     DiffLine("hdr", <<>>, 44),
                     DiffLine("ctx", <<>>, 0), DiffLine("ctx", <<>>, 0) >>
    /\ df_result = << PatchedFile(<<"x">>, <<"x">>, <<>>) >>

----------------------------------------------------------------------------
(* Claims about the order of Messages. *)

\* s < t for two strings: s is a proper prefix of t, or at the first
\* position where they differ the character of s has the smaller code.
StrLess(s, t) ==
    \E k \in 1..Len(t) :
        /\ k <= Len(s) + 1
        /\ \A j \in 1..(k - 1) : s[j] = t[j]
        /\ (k = Len(s) + 1 \/ Ord(s[k]) < Ord(t[k]))

\* The tuple of the claim: an absent filename is the empty string, an absent
\* lineno or charno is 0.
OrderTuple(m) ==
    << IF m.filename = NoName THEN <<>> ELSE m.filename,
       IF m.lineno = NoInt THEN 0 ELSE m.lineno[1],
       IF m.charno = NoInt THEN 0 ELSE m.charno[1],
       m.text >>

\* The lexicographic strict order on two such tuples.
LexLess(t, u) ==
    \E i \in 1..4 :
        /\ \A j \in 1..(i - 1) : t[j] = u[j]
        /\ IF i \in {1, 4} THEN StrLess(t[i], u[i]) ELSE t[i] < u[i]

AllMessages(operands) == \A o \in operands : o.class = "Message"

\* C12. Message ordering: a < b on two Messages is the lexicographic strict
\* order on (filename, lineno, charno, text) with an absent filename as the
\* empty string and an absent lineno or charno as 0; over all triples it is
\* transitive and never holds both ways; a comparison of a Message with an
\* object that is no Message raises TypeError.
C12_MessageOrdering ==
    fn_pc = "done"
        => LET a == fn_args.a
               b == fn_args.b
               c == fn_args.c
           IN  /\ AllMessages({a, b})
                    => /\ fn_ret.ab = Ok(LexLess(OrderTuple(a.value), OrderTuple(b.value)))
                       /\ ~(fn_ret.ab.val /\ fn_ret.ba.val)
               /\ AllMessages({a, b, c})
                    => ((fn_ret.ab.val /\ fn_ret.bc.val) => fn_ret.ac.val)
               /\ (a.class = "Message") # (b.class = "Message")
                    => /\ fn_ret.ab.exc = "TypeError"
                       /\ fn_ret.ba.exc = "TypeError"

\* a < b < c by the line number alone, with an absent line number first.
C12_Witness ==
    /\ fn_pc = "done"
    /\ AllMessages({fn_args.a, fn_args.b, fn_args.c})
    /\ fn_args.a.value.lineno = NoInt
    /\ fn_args.b.value.lineno = Int1(1)
    /\ fn_args.c.value.lineno = Int1(2)
    /\ fn_args.a.value.filename = fn_args.c.value.filename
    /\ fn_ret.ab = Ok(TRUE) /\ fn_ret.bc = Ok(TRUE) /\ fn_ret.ac = Ok(TRUE)
    /\ fn_ret.ba = Ok(FALSE)

----------------------------------------------------------------------------
(* Claims about rendering. *)

\* How often m occurs in a list of Messages.
Occurrences(m, messages) ==
    Cardinality({ k \in 1..Len(messages) : messages[k] = m })

\* The formatted lines of a list of Messages.
FormattedLines(messages) ==
    [k \in 1..Len(messages) |-> MessageFormat(messages[k]).val]

\* The lines of a list that differ from the line before them, in order.
RECURSIVE WithoutRepeats(_)
WithoutRepeats(lines) ==
    IF Len(lines) <= 1 THEN lines
    ELSE LET front == WithoutRepeats(SubSeq(lines, 1, Len(lines) - 1))
         IN  IF lines[Len(lines)] = lines[Len(lines) - 1] THEN front
             ELSE Append(front, lines[Len(lines)])

\* C13. Rendering: a call of show_messages that returns has put the accepted
\* Messages in nondecreasing order of the Message order, has printed each
\* formatted line except one equal to the line before it, has returned true
\* iff a Message had been accepted, and has added or removed no Message.
C13_Rendering ==
    (rp_pc = "shown" /\ rp_op = "show_messages")
        => LET before == rp_args.messages
           IN  /\ \A k \in 1..(Len(rp_messages) - 1) :
                     ~MessageLt(rp_messages[k + 1], rp_messages[k])
               /\ rp_printed = WithoutRepeats(FormattedLines(rp_messages))
               /\ rp_ret = Ok(Len(before) > 0)
               /\ Len(rp_messages) = Len(before)
               /\ \A k \in 1..Len(before) :
                     Occurrences(before[k], rp_messages)
                        = Occurrences(before[k], before)

\* Two Messages accepted in descending order and rendered in ascending
\* order, both lines printed.
C13_Witness ==
    /\ rp_pc = "shown"
    /\ rp_op = "show_messages"
    /\ Len(rp_args.messages) = 2
    /\ MessageLt(rp_args.messages[2], rp_args.messages[1])
    /\ rp_messages = <<rp_args.messages[2], rp_args.messages[1]>>
    /\ Len(rp_printed) = 2
    /\ rp_ret = Ok(TRUE)

----------------------------------------------------------------------------
(* Claims about Linter.__call__. *)

\* The merged 'filefilter' setting of the linter that main is running.
MergedFilefilter ==
    LET config == mn_configs[mn_i]
    IN  IF "filefilter" \in ConfigKeys(config.config)
        THEN ConfigValue(config.config, "filefilter")
        ELSE config.linter.default_config["filefilter"]

\* The file matches the merged 'filefilter' setting.
MatchesMerged(f) ==
    LET r == MatchesFilefilter(f, MergedFilefilter)
    IN  r.exc = "none" /\ r.val

----------------------------------------------------------------------------
(* Claims about the lines of a diff. *)

\* --- a/x, +++ b/x, @@ -1 +1 @@, a '-' line, `\ No newline at end of file`,
\* a '+' line: the diff git prints for a one-line file that gets its
\* missing newline.
ScenarioNoNewline ==
    << DiffLine("src", <<"a", "/", "x">>, 0), DiffLine("tgt", <<"b", "/", "x">>, 0),
       DiffLine("hdr", <<>>, 1), DiffLine("del", <<>>, 0),
       DiffLine("other", <<>>, 0), DiffLine("add", <<>>, 0) >>

\* C15. Unrecognized lines: parse_unified_diff never raises on a line that
\* is no marker, header or hunk body line (an empty line included), and
\* such a line does not change the files and hunks parsed from the other
\* lines: the replacement of line 1 with a `\ No newline at end of file`
\* line between its '-' and its '+' line gives the one hunk that the same
\* diff gives without that line.
C15_UnrecognizedLinesSkipped ==
    /\ df_pc = "raised"
            => df_lines[df_iline + 1].kind \notin {"other", "empty"}
    /\ (df_pc = "parsed" /\ df_lines = ScenarioNoNewline)
            => df_result =
                 << PatchedFile(<<"x">>, <<"x">>,
                                << Hunk(0, <<LineText>>, <<LineText>>) >>) >>

\* The source_start of every hunk of a Patch, file by file.
RECURSIVE HunkStarts(_)
HunkStarts(patch) ==
    IF patch = <<>> THEN <<>>
    ELSE SourceStarts(Head(patch)) \o HunkStarts(Tail(patch))

\* The positions the claim gives the hunks of a text, from line i on: base
\* is the number of the last hunk header minus 1, count the context and
\* deleted lines since that header, inrun tells whether the line before was
\* a '+' or '-' line of the same hunk. A line that is no '+' or '-' line
\* ends the hunk.
RECURSIVE ClaimedStarts(_, _, _, _, _)
ClaimedStarts(lines, i, base, count, inrun) ==
    IF i > Len(lines) THEN <<>>
    ELSE LET kind == lines[i].kind
         IN  CASE kind = "hdr" ->
                    ClaimedStarts(lines, i + 1, lines[i].start - 1, 0, FALSE)
               [] kind = "add" ->
                    (IF inrun THEN <<>> ELSE <<base + count>>)
                    \o ClaimedStarts(lines, i + 1, base, count, TRUE)
               [] kind = "del" ->
                    (IF inrun THEN <<>> ELSE <<base + count>>)
                    \o ClaimedStarts(lines, i + 1, base, count + 1, TRUE)
               [] kind = "ctx" ->
                    ClaimedStarts(lines, i + 1, base, count + 1, FALSE)
               [] OTHER ->
                    ClaimedStarts(lines, i + 1, base, count, FALSE)

\* C20. Hunk positions: in the Patch parse_unified_diff returns, the
\* source_start of every hunk is the number of its hunk header minus 1 plus
\* the number of context and deleted lines of that header's section before
\* the hunk's first added or removed line; consecutive '+'/'-' lines form
\* one hunk and a context line closes it (header -44,0 gives 43).
C20_HunkPositions ==
    df_pc = "parsed"
        => HunkStarts(df_result) = ClaimedStarts(df_lines, 1, 0, 0, FALSE)


----------------------------------------------------------------------------
(* C16: the names of marker lines *)

\* The prefix the caller passes for a marker of this kind.
PrefixOf(kind) == IF kind = "src" THEN SourcePrefix ELSE TargetPrefix

\* A marker name the claim accepts: /dev/null, or the prefix and a rest.
GoodName(line) ==
    \/ line.name = DevNull
    \/ \E k \in 0..Len(line.name) :
          /\ k = Len(PrefixOf(line.kind))
          /\ \A j \in 1..k : line.name[j] = PrefixOf(line.kind)[j]

\* The marker lines of this kind that parse_unified_diff has passed.
MarkersPassed(kind) ==
    { k \in 1..df_iline : df_lines[k].kind = kind }

\* The filename the claim derives from the last marker of this kind passed.
ClaimedFilename(kind) ==
    IF MarkersPassed(kind) = {} THEN Unbound
    ELSE LET k == CHOOSE m \in MarkersPassed(kind) :
                      \A n \in MarkersPassed(kind) : n <= m
             name == df_lines[k].name
         IN  IF name = DevNull THEN NoName
             ELSE CHOOSE rest \in { SubSeq(name, j, Len(name)) :
                                       j \in 1..(Len(name) + 1) } :
                      PrefixOf(kind) \o rest = name

\* The line at which parse_unified_diff stands is a marker line.
AtMarker ==
    /\ df_iline < Len(df_lines)
    /\ df_lines[df_iline + 1].kind \in {"src", "tgt"}

\* C16. Marker names: a marker line whose name is /dev/null gives an absent
\* filename, any other name that starts with the caller's prefix gives the
\* name without the prefix, and a name that does not start with the prefix
\* makes parse_unified_diff raise ValueError at that line, so that no Patch
\* is returned; ValueError is raised in no other case.
C16_MarkerNames ==
    /\ \A k \in MarkersPassed("src") \union MarkersPassed("tgt") :
          GoodName(df_lines[k])
    /\ df_source_filename = ClaimedFilename("src")
    /\ df_target_filename = ClaimedFilename("tgt")
    /\ (df_pc = "raised" /\ AtMarker)
          => /\ df_exc = "ValueError"
             /\ ~GoodName(df_lines[df_iline + 1])
    /\ df_exc = "ValueError"
          => /\ df_pc = "raised"
             /\ AtMarker
             /\ df_files_lines = <<>>

\* A diff that removes file x has been parsed: the source name lost its
\* prefix a/ and the target name /dev/null gave an absent filename.
C16_Witness ==
    /\ df_pc = "parsed"
    /\ Len(df_lines) >= 3
    /\ df_lines[1] = DiffLine("src", <<"a", "/", "x">>, 0)
    /\ df_lines[2] = DiffLine("tgt", DevNull, 0)
    /\ df_source_filename = <<"x">>
    /\ df_target_filename = NoName
    /\ Len(df_result) = 1
    /\ df_result[1].source_filename = <<"x">>
    /\ df_result[1].target_filename = NoName


----------------------------------------------------------------------------
(* C17: the validation of the shard string *)

\* The number a string of decimal digits writes, read from its last digit;
\* -1 for the empty string and for a string with another character.
RECURSIVE NumberWritten(_)
NumberWritten(t) ==
    IF t = <<>> THEN -1
    ELSE LET c == t[Len(t)]
             d == CASE c = "0" -> 0 [] c = "1" -> 1 [] c = "2" -> 2
                    [] c = "3" -> 3 [] c = "4" -> 4 [] c = "5" -> 5
                    [] c = "6" -> 6 [] c = "7" -> 7 [] c = "8" -> 8
                    [] c = "9" -> 9 [] OTHER -> -1
             front == SubSeq(t, 1, Len(t) - 1)
         IN  IF d = -1 THEN -1
             ELSE IF front = <<>> THEN d
             ELSE IF NumberWritten(front) = -1 THEN -1
             ELSE 10 * NumberWritten(front) + d

\* The integer >= 0 a part of the suffix stands for: digits, with a '+'
\* before them and blanks around them allowed as int() allows them; -1
\* when it is none.
PartNumber(t) ==
    LET inner == { <<a, b>> \in (1..Len(t)) \X (1..Len(t)) :
                      /\ a <= b
                      /\ t[a] # " " /\ t[b] # " "
                      /\ \A k \in 1..Len(t) : (k < a \/ k > b) => t[k] = " " }
    IN  IF inner = {} THEN -1
        ELSE LET ab == CHOOSE x \in inner : TRUE
             IN  IF t[ab[1]] = "+"
                 THEN NumberWritten(SubSeq(t, ab[1] + 1, ab[2]))
                 ELSE NumberWritten(SubSeq(t, ab[1], ab[2]))

\* The places of '/' in a string.
Slashes(s) == { k \in 1..Len(s) : s[k] = "/" }

\* What the claim has get_offset_step return for a suffix.
ClaimedOffsetStep(s) ==
    IF s = <<>> \/ s = NoName THEN Ok(<<0, 1>>)
    ELSE IF Cardinality(Slashes(s)) # 1 THEN Raise("ValueError")
    ELSE LET k == CHOOSE x \in Slashes(s) : TRUE
             N == PartNumber(SubSeq(s, 1, k - 1))
             M == PartNumber(SubSeq(s, k + 1, Len(s)))
         IN  IF 1 <= N /\ N <= M THEN Ok(<<N - 1, M>>)
             ELSE Raise("ValueError")

\* C17. Shard string validation: get_offset_step returns (0, 1) for an
\* empty or absent string and (N-1, M) for 'N/M' with integers
\* 1 <= N <= M; every other string raises ValueError; a returned pair has
\* 0 <= offset < step.
C17_ShardStringValidation ==
    fn_pc = "done" /\ "suffix" \in DOMAIN fn_args
        => /\ fn_ret = ClaimedOffsetStep(fn_args.suffix)
           /\ fn_ret.exc = "none"
                 => 0 <= fn_ret.val[1] /\ fn_ret.val[1] < fn_ret.val[2]

\* get_offset_step('2/3') has returned (1, 3).
C17_Witness ==
    /\ fn_pc = "done"
    /\ "suffix" \in DOMAIN fn_args
    /\ fn_args.suffix = <<"2", "/", "3">>
    /\ fn_ret = Ok(<<1, 3>>)


----------------------------------------------------------------------------
(* C18: the defaults of a linter config *)

\* A call of apply_config_defaults has returned or raised.
DefaultsDone == fn_pc = "done" /\ "heap" \in DOMAIN fn_args

\* The config and the default config handed to the call.
GivenConfig == fn_args.heap["config"]

GivenDefault == fn_args.heap["default_config"]

\* C18. Config defaults: apply_config_defaults raises ValueError iff the
\* given config has a key that the default config has not; otherwise it
\* returns a mapping whose keys are exactly the keys of the default config,
\* with the given value for each key the config sets and the default value
\* for each other key; in both cases the given config and the default
\* config are after the call what they were before it.
C18_ConfigDefaults ==
    DefaultsDone
        => /\ fn_ret.exc \in {"none", "ValueError"}
           /\ fn_ret.exc = "ValueError"
                 <=> ~(DOMAIN GivenConfig \subseteq DOMAIN GivenDefault)
           /\ fn_ret.exc = "none"
                 => LET merged == fn_ret.heap[fn_ret.val]
                    IN  /\ DOMAIN merged = DOMAIN GivenDefault
                        /\ \A key \in DOMAIN GivenConfig :
                              merged[key] = GivenConfig[key]
                        /\ \A key \in DOMAIN GivenDefault \ DOMAIN GivenConfig :
                              merged[key] = GivenDefault[key]
           /\ fn_ret.heap["config"] = GivenConfig
           /\ fn_ret.heap["default_config"] = GivenDefault

\* A config that sets a to 1 has been merged with defaults of 0 for a and
\* for b: the result has a = 1 and b = 0.
C18_Witness ==
    /\ DefaultsDone
    /\ DOMAIN GivenConfig = {"a"} /\ GivenConfig["a"] = 1
    /\ DOMAIN GivenDefault = {"a", "b"}
    /\ GivenDefault["a"] = 0 /\ GivenDefault["b"] = 0
    /\ fn_ret.exc = "none"
    /\ fn_ret.heap[fn_ret.val]["a"] = 1
    /\ fn_ret.heap[fn_ret.val]["b"] = 0


----------------------------------------------------------------------------
(* C19: positions of messages are positive *)

\* A lineno or charno that is present but not > 0.
NotPositive(n) == n # NoInt /\ n[1] <= 0

\* The proposal in rp_args has such a lineno or charno.
BadPosition == NotPositive(rp_args.lineno) \/ NotPositive(rp_args.charno)

\* C19. Positive positions: every Message a Report retains has lineno and
\* charno absent or > 0; a proposal whose lineno or charno is present but
\* not > 0 is never accepted, the construction of its Message raising
\* TypeError; a proposal raises nothing else and only for this reason, and
\* a proposal that raises leaves the retained messages what they were.
C19_PositivePositions ==
    /\ \A k \in 1..Len(rp_messages) :
          /\ ~NotPositive(rp_messages[k].lineno)
          /\ ~NotPositive(rp_messages[k].charno)
    /\ rp_op = "call"
          => /\ rp_ret.exc \in {"none", "TypeError"}
             /\ rp_ret.exc = "TypeError" => BadPosition
             /\ BadPosition => rp_ret \in {Raise("TypeError"), Ok(FALSE)}
             /\ rp_ret.exc # "none" => rp_messages = rp_args.messages

\* A Report that retains one message was proposed a finding on line 0 of
\* a file whose changed lines include 0: the proposal raised TypeError and
\* the one message is retained as before.
C19_Witness ==
    /\ rp_op = "call"
    /\ rp_args.lineno = Int1(0)
    /\ rp_ret = Raise("TypeError")
    /\ Len(rp_args.messages) = 1
    /\ rp_messages = rp_args.messages


----------------------------------------------------------------------------
(* C21: the formula of extract_files_lines *)

\* The union over the hunks k of file i of the integers
\* target_starts[k] .. target_starts[k] + target_lengths[k] - 1.
ClaimedLineSet(i) ==
    UNION { { ps_target_starts[i][k] + d :
                d \in 0..(Len(ps_patch[i].hunks[k].add_lines) - 1) } :
            k \in 1..Len(ps_patch[i].hunks) }

\* The files of the patch that have a target.
WithTarget == { i \in 1..Len(ps_patch) : ps_patch[i].target_filename # NoName }

\* No later file of the patch has the target of file i.
LastOfTarget(i) ==
    \A j \in (i + 1)..Len(ps_patch) :
        ps_patch[j].target_filename # ps_patch[i].target_filename

----------------------------------------------------------------------------
(* C22: the order of the hunks of a file *)

\* The hunk headers of one file come with increasing line numbers, as a
\* diff tool writes them.
HeadersIncreasing ==
    \A i, j \in 1..Len(df_lines) :
        (/\ i < j
         /\ df_lines[i].kind = "hdr" /\ df_lines[j].kind = "hdr"
         /\ \A m \in i..j : df_lines[m].kind \notin {"src", "tgt"})
            => df_lines[i].start < df_lines[j].start

\* C22. Hunk ordering: in every PatchedFile parse_unified_diff returns for
\* a text whose hunk headers increase within a file, consecutive hunks h
\* and h' satisfy source_start(h') >= source_start(h) + source_length(h)
\* and source_start(h') > source_start(h), also when a skipped line such as
\* `\ No newline at end of file` stands between hunk body lines.
C22_HunkOrdering ==
    (df_pc = "parsed" /\ HeadersIncreasing)
        => \A f \in 1..Len(df_result) :
              \A k \in 1..(Len(df_result[f].hunks) - 1) :
                 LET h == df_result[f].hunks[k]
                     hn == df_result[f].hunks[k + 1]
                 IN  /\ hn.source_start >= h.source_start + SourceLength(h)
                     /\ hn.source_start > h.source_start


----------------------------------------------------------------------------
(* C23: the linters run one after another *)

\* The list filter_configs returns in this run.
SelectedConfigs ==
    FilterConfigs(LoadConfig(mn_raw_config, mn_args.fix).val[2],
                  mn_args.selection, mn_args.boolexpr, mn_args.part).val

----------------------------------------------------------------------------
(* C24: the assertion of the parser *)

\* C24. Parser assertion: on every input the assertion `hunks is not
\* None` of parse_unified_diff holds, so that a '+', '-' or context line is
\* handed to _parse_hunks only when a hunk header has come since the last
\* marker line; and no marker line is consumed as a line of a hunk.
C24_ParserAssertion ==
    /\ df_exc # "AssertionError"
    /\ df_pc = "hunks" => df_hunks
    /\ df_pc = "hunks"
          => \A k \in 1..df_iline :
                df_lines[k].kind \in {"src", "tgt"}
                   => \E m \in (k + 1)..df_iline : df_lines[m].kind = "hdr"


----------------------------------------------------------------------------
(* C25: no state is shared between the runs of the linters *)

\* The mapping main builds from the diff and pre_filefilter.
PreFiltered == PreFilter(mn_diff, mn_prefilter).files_lines

\* The loop of main has been entered.
InLoop == mn_i >= 1

----------------------------------------------------------------------------
(* C26: fix mode *)

\* The names of the configured linters that can fix, in their order.
RECURSIVE FixerNames(_)
FixerNames(linters) ==
    IF linters = <<>> THEN <<>>
    ELSE IF LINTERS[Head(linters).linter_name].can_fix
         THEN <<Head(linters).linter_name>> \o FixerNames(Tail(linters))
    ELSE FixerNames(Tail(linters))

\* A Linter object has been called on its own.
LinterCalled == fn_pc = "done" /\ "fixit" \in DOMAIN fn_args

\* C26. Fix mode: in a run of main with the fix flag, load_config returns
\* the configured linters that can fix, in their order, so that every
\* config selected and every linter run can fix; and a call of a Linter
\* with fixit true and can_fix false raises ValueError before the config
\* is merged, the Report narrowed or the body called, while no other call
\* raises from this test.
C26_FixMode ==
    /\ (mn_args.fix /\ mn_pc = "loaded")
          => [k \in 1..Len(mn_configs) |-> mn_configs[k].linter.name]
                = FixerNames(mn_raw_config.linters)
    /\ (mn_args.fix /\ mn_pc \notin {"idle", "start"})
          => /\ \A k \in 1..Len(mn_configs) : mn_configs[k].linter.can_fix
             /\ \A k \in 1..Len(mn_ran) : LINTERS[mn_ran[k]].can_fix
             /\ mn_exc.at # "Linter.__call__"
    /\ LinterCalled
          => IF fn_args.fixit /\ ~fn_args.linter.can_fix
             THEN /\ fn_ret.exc = "ValueError"
                  /\ fn_ret.at = "Linter.__call__"
                  /\ ~fn_ret.ran
                  /\ fn_ret.report = fn_args.report
                  /\ fn_ret.shared = fn_args.report.files_lines
             ELSE fn_ret.at # "Linter.__call__"

\* A Linter that cannot fix was called with fixit true and a config with
\* an unknown key, on a Report with files in its scope: the call raised
\* from the test of the fix flag.
C26_Witness ==
    /\ LinterCalled
    /\ fn_args.fixit
    /\ ~fn_args.linter.can_fix
    /\ \E item \in fn_args.config : item[1] = "typo"
    /\ DOMAIN fn_args.report.files_lines # {}
    /\ fn_ret.exc = "ValueError"
    /\ fn_ret.at = "Linter.__call__"


----------------------------------------------------------------------------
(* C27: proposals that span several lines *)

\* The gate of the claim for the proposal in rp_args, whose lineno is
\* present: the file is in the scope, and the scope of the file is all
\* lines or holds one of the lines lineno .. lineno + nline - 1.
MultiLineGate ==
    /\ rp_args.filename \in DOMAIN rp_args.files_lines
    /\ \/ rp_args.files_lines[rp_args.filename].all
       \/ { l \in rp_args.files_lines[rp_args.filename].lines :
              /\ rp_args.lineno[1] <= l
              /\ l <= rp_args.lineno[1] + rp_args.nline - 1 } # {}

\* The call returned true and appended the one Message of the proposal.
AcceptedOne ==
    /\ rp_ret = Ok(TRUE)
    /\ Len(rp_messages) = Len(rp_args.messages) + 1
    /\ SubSeq(rp_messages, 1, Len(rp_args.messages)) = rp_args.messages
    /\ LET m == rp_messages[Len(rp_messages)]
       IN  /\ m.filename = rp_args.filename /\ m.lineno = rp_args.lineno
           /\ m.charno = rp_args.charno /\ m.text = rp_args.text
           /\ m.nline = rp_args.nline

\* The call returned false and left the messages and the scope alone.
RejectedUnchanged ==
    /\ rp_ret = Ok(FALSE)
    /\ rp_messages = rp_args.messages
    /\ rp_files_lines = rp_args.files_lines

\* C27 as stated. Multi-line proposals: a proposal with lineno present and
\* nline >= 1 is accepted iff the file is in the scope and (the file's
\* scope is all lines or one of the lines lineno .. lineno + nline - 1 is
\* in its line set); the call returns true iff exactly one Message was
\* appended and false iff the list and the scope are unchanged.
C27_MultiLineProposalsAnyPosition ==
    (rp_op = "call" /\ rp_args.lineno # NoInt)
        => IF MultiLineGate THEN AcceptedOne ELSE RejectedUnchanged

\* C27, amended. The same for a proposal whose lineno is > 0 and whose
\* charno is absent or > 0; for nline = 1 the gate is the single-line
\* gate; a proposal whose lineno or charno is present and not > 0 raises
\* TypeError when the gate lets it through and is rejected otherwise, the
\* list and the scope unchanged in both cases.
C27_MultiLineProposals ==
    (rp_op = "call" /\ rp_args.lineno # NoInt)
        => /\ ValidPositions
                => IF MultiLineGate THEN AcceptedOne ELSE RejectedUnchanged
           /\ ~ValidPositions
                => /\ IF MultiLineGate THEN rp_ret = Raise("TypeError")
                      ELSE rp_ret = Ok(FALSE)
                   /\ rp_messages = rp_args.messages
                   /\ rp_files_lines = rp_args.files_lines
           /\ rp_args.nline = 1 => (MultiLineGate <=> GateOfClaim)
           /\ rp_ret.exc = "none"
                => /\ rp_ret.val = TRUE <=> AcceptedOne
                   /\ rp_ret.val = FALSE <=> RejectedUnchanged

\* A proposal on the lines 1 and 2 of a file whose line set holds 2 and
\* not 1 was accepted.
C27_Witness ==
    /\ rp_op = "call"
    /\ rp_args.lineno = Int1(1)
    /\ rp_args.nline = 2
    /\ rp_args.filename = <<"a">>
    /\ <<"a">> \in DOMAIN rp_args.files_lines
    /\ rp_args.files_lines[<<"a">>] = Lines({0, 2})
    /\ AcceptedOne


----------------------------------------------------------------------------
(* C28: no line is printed twice *)

\* show_messages has been called on the Report of SpecRender.
Rendered == fn_pc = "shown" /\ "printed" \in DOMAIN fn_ret

\* C28. No duplicate output: whatever proposals a Report accepted, ones
\* that differ only in nline included, show_messages prints no formatted
\* line twice: the lines printed are pairwise different.
C28_NoDuplicateOutput ==
    Rendered
        => \A i, j \in 1..Len(fn_ret.printed) :
              i # j => fn_ret.printed[i] # fn_ret.printed[j]


----------------------------------------------------------------------------
(* C29: rendering does not fail on accepted messages *)

\* C29. Rendering never fails on accepted messages: after any sequence of
\* accepted proposals, one with lineno absent and nline > 1 included,
\* show_messages sorts and formats every Message and returns without
\* raising.
C29_RenderingNeverFails ==
    fn_pc = "shown" /\ "exc" \in DOMAIN fn_ret
        => fn_ret.exc = "none"


----------------------------------------------------------------------------
(* C30: the shards 1/M .. M/M partition the selection *)

PartsDone == fn_pc = "sharded" /\ "shards" \in DOMAIN fn_ret

Positions(configs) == { configs[k].pos : k \in 1..Len(configs) }

Increasing(configs) ==
    \A j, k \in 1..Len(configs) : j < k => configs[j].pos < configs[k].pos

\* The shards of the run that hold the list item of position p
ShardsHolding(p) ==
    { N \in 1..fn_ret.M :
        /\ fn_ret.shards[N].exc = "none"
        /\ p \in Positions(fn_ret.shards[N].val) }

\* C30. Shards partition the selection: for every config list, selection
\* and boolexpr for which the name and boolexpr passes succeed, and every
\* M >= 1, the results of filter_configs for the parts 1/M .. M/M each keep
\* the relative order of the input, hold pairwise disjoint sets of list
\* positions, and together hold every retained config exactly once.
C30_ShardsPartition ==
    (PartsDone /\ fn_ret.retained.exc = "none")
        => /\ \A N \in 1..fn_ret.M :
                LET r == fn_ret.shards[N]
                IN  /\ r.exc = "none"
                    /\ Increasing(r.val)
                    /\ \A k \in 1..Len(r.val) :
                          /\ r.val[k].pos \in 1..Len(fn_args.configs)
                          /\ r.val[k] = fn_args.configs[r.val[k].pos]
                    /\ Positions(r.val) \subseteq Positions(fn_ret.retained.val)
           /\ \A N1, N2 \in 1..fn_ret.M :
                (N1 # N2 /\ fn_ret.shards[N1].exc = "none"
                         /\ fn_ret.shards[N2].exc = "none")
                    => Positions(fn_ret.shards[N1].val)
                         \cap Positions(fn_ret.shards[N2].val) = {}
           /\ \A p \in Positions(fn_ret.retained.val) :
                Cardinality(ShardsHolding(p)) = 1

\* Three shards of a list of which the passes drop an item and retain four
C30_Witness ==
    /\ PartsDone
    /\ fn_ret.M = 3
    /\ fn_ret.retained.exc = "none"
    /\ IF fn_ret.retained.exc = "none"
       THEN /\ Len(fn_ret.retained.val) < Len(fn_args.configs)
            /\ Len(fn_ret.retained.val) = 4
            /\ fn_ret.shards[1].exc = "none"
            /\ fn_ret.shards[3].exc = "none"
       ELSE FALSE
    /\ IF fn_ret.shards[1].exc = "none" THEN Len(fn_ret.shards[1].val) = 2 ELSE FALSE
    /\ IF fn_ret.shards[3].exc = "none" THEN Len(fn_ret.shards[3].val) = 1 ELSE FALSE

=============================================================================
